---- MODULE Spec2Model ----
(***************************************************************************)
(* Model of the auth session (contexts/auth-context.tsx) and of the shared *)
(* HTTP client with its interceptors (services/api-client, found at the    *)
(* end of services/movie-service.ts) of the movie database app.            *)
(*                                                                         *)
(* Every `await` of the source is a scheduling point: the model runs the   *)
(* synchronous code up to the next await in one action.  A call to         *)
(* AsyncStorage or NetInfo takes effect (or reads its value) when it is    *)
(* issued, the native side serving the calls in issue order; the code      *)
(* after the await is the next action of that flow.                        *)
(***************************************************************************)
EXTENDS Integers, Sequences, FiniteSets, TLC

\* ------------------------------------------------------------------ bounds
\* Number of calls made through the HTTP client (login, register, request).
MaxCalls == 2
\* Number of logoutUser calls made, and number of calls of both sorts made.
MaxLogouts == 2
MaxFlows == 3

CallIds == 1..MaxCalls

\* ------------------------------------------------------------ value domain
\* JavaScript's null and undefined.
Null == "null"
Undefined == "undefined"

\* Usernames typed by the user, the role and the error statuses and message
\* the server sends.
Usernames == {"bob"}
ServerRole == "admin"
ErrorStatuses == {401, 500}
ServerMessage == "Invalid credentials"

\* A User object of the source; NullUser stands for `user: null`.
User(u, r) == [username |-> u, role |-> r]
NullUser == User(Null, Null)

\* JavaScript's `a || b` on the string values of the model.
OrElse(a, b) == IF a = Undefined \/ a = Null THEN b ELSE a

\* JSON.stringify / JSON.parse of a User: the stored profile is a string,
\* modelled as the sequence of its pieces; NoData is an absent item.
NoData == <<>>
JSONstringify(u) == <<"{username:", u.username, ",role:", u.role, "}">>
JSONparse(s) == User(s[2], s[4])

\* An absent token in the credential store (getItem returns null).
NoToken == Null

\* ------------------------------------------------------------- authReducer
initialState ==
    [user |-> NullUser, isAuthenticated |-> FALSE, isLoading |-> TRUE, error |-> Null]

Action(t, p) == [type |-> t, payload |-> p]

authReducerKeepsUser(s, a) ==
    CASE a.type \in {"LOGIN_REQUEST", "REGISTER_REQUEST"} ->
            [s EXCEPT !.isLoading = TRUE, !.error = Null]
      [] a.type \in {"LOGIN_SUCCESS", "REGISTER_SUCCESS"} ->
            [s EXCEPT !.isAuthenticated = TRUE, !.user = a.payload,
                      !.isLoading = FALSE, !.error = Null]
      [] a.type \in {"LOGIN_FAILURE", "REGISTER_FAILURE"} ->
            [s EXCEPT !.isAuthenticated = FALSE,
                      !.isLoading = FALSE, !.error = a.payload]
      [] a.type = "LOGOUT" ->
            [s EXCEPT !.isAuthenticated = FALSE, !.user = NullUser,
                      !.isLoading = FALSE, !.error = Null]
      [] a.type = "CLEAR_ERROR" -> [s EXCEPT !.error = Null]
      [] OTHER -> s

authReducer(s, a) ==
    CASE a.type \in {"LOGIN_REQUEST", "REGISTER_REQUEST"} ->
            [s EXCEPT !.isLoading = TRUE, !.error = Null]
      [] a.type \in {"LOGIN_SUCCESS", "REGISTER_SUCCESS"} ->
            [s EXCEPT !.isAuthenticated = TRUE, !.user = a.payload,
                      !.isLoading = FALSE, !.error = Null]
      [] a.type \in {"LOGIN_FAILURE", "REGISTER_FAILURE"} ->
            [s EXCEPT !.isAuthenticated = FALSE, !.user = NullUser,
                      !.isLoading = FALSE, !.error = a.payload]
      [] a.type = "LOGOUT" ->
            [s EXCEPT !.isAuthenticated = FALSE, !.user = NullUser,
                      !.isLoading = FALSE, !.error = Null]
      [] a.type = "CLEAR_ERROR" -> [s EXCEPT !.error = Null]
      [] OTHER -> s

\* ------------------------------------------------- HTTP responses and errors
\* A server response: status 0 stands for "no response" (timeout, network
\* error).  Fields a payload does not carry are Undefined.
Resp(st, t, u, r, m) ==
    [status |-> st, token |-> t, username |-> u, role |-> r, message |-> m]
NoResp == Resp(0, Undefined, Undefined, Undefined, Undefined)

\* POST /auth/login succeeds with { token, username, role? }: one payload
\* without a role, one with.
LoginResponses ==
    {Resp(200, "t1", "alice", Undefined, Undefined),
     Resp(200, "t2", "alice", ServerRole, Undefined)}
\* POST /auth/register: the code allows for a missing token and a missing
\* username.
RegisterResponses ==
    {Resp(200, "t2", "alice", Undefined, Undefined),
     Resp(200, Undefined, Undefined, ServerRole, Undefined)}
\* Any other request: the payload is not looked at here.
DataResponses == {Resp(200, Undefined, Undefined, Undefined, Undefined)}
\* Non-2xx responses, with or without a message in the payload.
ErrorResponses ==
    {Resp(st, Undefined, Undefined, Undefined, m) :
        st \in ErrorStatuses, m \in {Undefined, ServerMessage}}

\* login and register of the auth service declare a response with a
\* token (AuthResponse).
SuccessResponses(kind) ==
    CASE kind \in {"login", "authService.login"} -> LoginResponses
      [] kind = "register" -> RegisterResponses
      [] kind = "authService.register" -> {r \in RegisterResponses : r.token # Undefined}
      [] OTHER -> DataResponses

\* A JavaScript Error: its message and the message of the payload of the
\* response it carries (error.response?.data?.message), Undefined when the
\* error carries no response or the payload no message.
Err(m, rm) == [message |-> m, responseMessage |-> rm]
NoError == Err(Null, Undefined)
AxiosError(r) == Err("AxiosError", r.message)
NoInternetError == Err("No internet connection", Undefined)
SessionExpiredError == Err("Session expired. Please login again.", Undefined)
\* The error a rejected AsyncStorage call throws: an Error without response.
StorageError == Err("storage failure", Undefined)

\* ----------------------------------------------------- request interceptor
\* config.headers.Authorization after the request interceptor, given the
\* value getItem(TOKEN_STORAGE_KEY) returned.
AuthHeaderAlways(token) == "Bearer " \o token

AuthHeader(token) ==
    IF token # NoToken THEN "Bearer " \o token ELSE Undefined

\* ---------------------------------------------------------------- variables
VARIABLES
    state,          \* the AuthState held by useReducer
    tokenStore,     \* AsyncStorage item TOKEN_STORAGE_KEY
    userDataStore,  \* AsyncStorage item USER_DATA_KEY
    hyd,            \* the checkAuthStatus flow started by the mount effect
    lo,             \* the logoutUser flows under way
    calls,          \* the calls in flight through apiClient, by call id
    settled         \* the flow the last step completed, with what it delivered

vars == <<state, tokenStore, userDataStore, hyd, lo, calls, settled>>

\* A call that has not been made yet.
\*  kind      "login", "register" (of the auth context), "request" (any
\*            other use of apiClient by the app), "authService.login" or
\*            "authService.register" (the functions of the auth service,
\*            which nothing in the app calls)
\*  pc        the await the flow is suspended at, "idle" or "done"
\*  username  the username argument of register
\*  connected, token   the locals netInfo.isConnected and token of the
\*            request interceptor
\*  header    the Authorization header of the request config
\*  sent      the request has been dispatched to the server
\*  resp      the response received (NoResp: none)
\*  user      the local `user` of login and register
\*  clean     no other flow has written the stores since this call first
\*            wrote them (history, for the properties)
\*  by        who has written the stores since this call first wrote them:
\*            "none", "auth" (other login or register calls only, noted
\*            for a call that stores a token) or "other" (history, for the
\*            properties)
\* The locals of a call are dropped when it settles, those of the request
\* interceptor when the response is a 401 or login or register go on after
\* a 2xx response.
IdleCall ==
    [kind |-> "none", pc |-> "idle", username |-> Undefined, connected |-> TRUE,
     token |-> NoToken, header |-> Undefined, sent |-> FALSE, resp |-> NoResp,
     user |-> NullUser, clean |-> TRUE, by |-> "none"]

DoneCall == [IdleCall EXCEPT !.pc = "done"]

\* checkAuthStatus: its await, its locals token and userDataString, and
\* the await whose rejection took it to its catch block ("none" when it is
\* not there).
HydDone == [pc |-> "done", token |-> NoToken, userDataString |-> NoData,
            failedAt |-> "none"]

\* A logoutUser flow: the await it is suspended at ("logout" for `await
\* logout()`, "removeUser" for the removeItem of the profile), "done" when
\* it has completed, and
\*  clean     no other flow has written the stores since it started
\*            (history, for the properties; dropped when the flow is done)
\* The flows differ in nothing else, so lo counts them: lo[f] is the number
\* of flows that are as f.
LogoutFlow(pc, clean) == [pc |-> pc, clean |-> clean]
LogoutFlows ==
    {LogoutFlow(pc, clean) : pc \in {"logout", "removeUser"}, clean \in BOOLEAN}
    \cup {LogoutFlow("done", TRUE)}
NoLogouts == [f \in LogoutFlows |-> 0]
IdleLogout == LogoutFlow("idle", TRUE)

LogoutsAt(l, pc) ==
    l[LogoutFlow(pc, TRUE)] + (IF pc = "done" THEN 0 ELSE l[LogoutFlow(pc, FALSE)])
LogoutsUnderWay(l) == LogoutsAt(l, "logout") + LogoutsAt(l, "removeUser")
LogoutsMade(l) == LogoutsUnderWay(l) + LogoutsAt(l, "done")

\* What the last step completed, if it completed a flow:
\*  kind      "login", "register", "request", "hydration", "logoutUser", or
\*            "none" when the step completed no flow
\*  id        the id of the call
\*  call      the call (or hyd, or the logoutUser flow lo) as it was when it
\*            completed
\*  reqErr    the error apiClient's promise rejected with (NoError: resolved)
\*  result    "true" when login/register/request resolved ("authData" for
\*            the functions of the auth service), else the message of the
\*            Error thrown to the caller; for checkAuthStatus and
\*            logoutUser Null when they resolved, else the message of the
\*            error they rejected with
NothingSettled ==
    [kind |-> "none", id |-> 0, call |-> IdleCall, hyd |-> HydDone, lo |-> IdleLogout,
     reqErr |-> NoError, result |-> Null]

Settled(c, call, e, res) ==
    [NothingSettled EXCEPT !.kind = call.kind, !.id = c, !.call = call,
                           !.reqErr = e, !.result = res]

\* ------------------------------------------------------ query keys (services)
\* Ids of entities and page numbers the screens ask for.
MaxId == 2
MaxPage == 2
\* Number of queries the QueryCache holds at a time.
MaxQueries == 2

Ids == 1..MaxId
Pages == 1..MaxPage
Resources == {"movies", "actors", "directors", "genres"}

\* An argument the caller leaves out (JavaScript's undefined, for a number).
Omitted == 0
Default(x, d) == IF x = Omitted THEN d ELSE x

\* The elements of a query key: a string and a number are different
\* elements even when they print alike ('1' and 1).
Str(s) == "'" \o s \o "'"
Num(n) == ToString(n)

\* JSON.stringify(params) of a list hook, params being the properties of
\* the object as <<name, value>> pairs in the order the caller set them: a
\* property whose value is undefined is left out, the others are written
\* in that order with a comma between two of them.
RECURSIVE JSONproperties(_)
JSONproperties(params) ==
    IF params = <<>> THEN ""
    ELSE LET p == Head(params)
             rest == JSONproperties(Tail(params))
         IN  IF p[2] = Omitted THEN rest
             ELSE "\"" \o p[1] \o "\":" \o ToString(p[2])
                      \o (IF rest = "" THEN "" ELSE "," \o rest)

JSONstringifyParams(params) == "{" \o JSONproperties(params) \o "}"

\* The params object {pageNumber, pageSize} of a list hook.
FilterParams(pageNumber, pageSize) ==
    <<<<"pageNumber", pageNumber>>, <<"pageSize", pageSize>>>>

\* movieKeys, actorKeys, directorKeys, genreKeys: the same five builders in
\* the four services, on the resource name R.
KeysAll(R) == <<Str(R)>>
KeysLists(R) == KeysAll(R) \o <<Str("list")>>
KeysList(R, filters) == KeysLists(R) \o <<"{filters:" \o Str(filters) \o "}">>
KeysDetails(R) == KeysAll(R) \o <<Str("detail")>>
KeysDetail(R, id) == KeysDetails(R) \o <<Num(id)>>
movieKeysByActor == KeysAll("movies") \o <<Str("byActor")>>
movieKeysActorMovies(id) == movieKeysByActor \o <<Num(id)>>
movieKeysByGenre == KeysAll("movies") \o <<Str("byGenre")>>
movieKeysGenreMovies(id) == movieKeysByGenre \o <<Num(id)>>

\* The request a service method sends: the endpoint with the id and the
\* paging parameters (Omitted where the endpoint has none).
Request_(endpoint, id, pageNumber, pageSize) ==
    [endpoint |-> endpoint, id |-> id, pageNumber |-> pageNumber, pageSize |-> pageSize]
getList(R, pageNumber, pageSize) ==
    Request_("GET /" \o R, Omitted, Default(pageNumber, 1), Default(pageSize, 10))
getDetail(R, id) == Request_("GET /" \o R \o "/{id}", id, Omitted, Omitted)
getMoviesByActor(actorId, pageNumber, pageSize) ==
    Request_("GET /movies/actor/{id}", actorId, Default(pageNumber, 1), Default(pageSize, 10))
getMoviesByGenre(genreId, pageNumber, pageSize) ==
    Request_("GET /movies/genre/{id}", genreId, Default(pageNumber, 1), Default(pageSize, 10))
getActorMovies(id, pageNumber, pageSize) ==
    Request_("GET /movies/actors/{id}", id, Default(pageNumber, 1), Default(pageSize, 10))
\* getPersonDetails of the people service.
getPersonDetails(id) == Request_("GET /movies/people/{id}", id, Omitted, Omitted)
\* getPopularGenres and getPopularPeople send no paging parameters.
getPopular(R) == Request_("GET /movies/" \o R \o "/popular", Omitted, Omitted, Omitted)

\* ------------------------------------------------------------- the reads
\* The arguments of a read: an id, a page number, a page size.
Args(id, pageNumber, pageSize) == [id |-> id, pageNumber |-> pageNumber, pageSize |-> pageSize]
NoArgs == Args(Omitted, Omitted, Omitted)

\* A useQuery of the app: the hook or screen that holds it, the resource it
\* reads, and whether it reads a list or one entity.
Site(name, R, kind) == [name |-> name, resource |-> R, kind |-> kind]

ReadSites ==
    \* useMovies, useActors, useDirectors, useGenres
    {Site("useList", R, "list") : R \in Resources}
    \* useMovie, useActor, useDirector, useGenre
    \cup {Site("useDetail", R, "detail") : R \in Resources}
    \* HomeScreen, ActorsScreen, DirectorsScreen, GenresScreen
    \cup {Site("ListScreen", R, "list") : R \in Resources}
    \* the pickers of CreateMovieScreen and of EditMovieScreen
    \cup {Site("CreateMovieScreen", R, "list") : R \in {"genres", "directors", "actors"}}
    \cup {Site("EditMovieScreen", R, "list") : R \in {"genres", "directors", "actors"}}
    \* ['movie', id] of EditMovieScreen and of the movie screen
    \cup {Site("MovieScreen", "movies", "detail")}
    \cup {Site("useMoviesByActor", "movies", "list")}
    \cup {Site("useMoviesByGenre", "movies", "list")}
    \cup {Site("useActorMovies", "actors", "list")}
    \* the genre filters of SearchScreen
    \cup {Site("SearchScreen", "genres", "list")}
    \* ['popularGenres'] and ['popularPeople'] of ExploreScreen
    \cup {Site("ExploreScreen", R, "list") : R \in {"popularGenres", "popularPeople"}}
    \* usePerson of the people service
    \cup {Site("usePerson", "people", "detail")}

\* The arguments a read can be made with.
SiteArgs(s) ==
    CASE s.name = "useList" -> {Args(Omitted, p, Omitted) : p \in {Omitted} \cup Pages}
      [] s.name \in {"useDetail", "MovieScreen", "usePerson"} ->
            {Args(i, Omitted, Omitted) : i \in Ids}
      [] s.name = "ListScreen" /\ s.resource # "genres" ->
            {Args(Omitted, p, Omitted) : p \in Pages}
      [] s.name \in {"useMoviesByActor", "useActorMovies"} ->
            {Args(i, p, Omitted) : i \in Ids, p \in {Omitted} \cup Pages}
      \* GenreMoviesScreen calls useMoviesByGenre with the id only
      [] s.name = "useMoviesByGenre" -> {Args(i, Omitted, Omitted) : i \in Ids}
      [] OTHER -> {NoArgs}

\* The page size of the list screens.
limit(R) == IF R = "movies" THEN 10 ELSE 20

\* queryKey of the useQuery at site s, called with arguments a.  The id of
\* the movie screens is the route parameter, a string.
queryKey(s, a) ==
    CASE s.name = "useList" ->
            KeysList(s.resource, JSONstringifyParams(FilterParams(a.pageNumber, a.pageSize)))
      [] s.name = "useDetail" -> KeysDetail(s.resource, a.id)
      [] s.name = "ListScreen" ->
            IF s.resource = "genres" THEN <<Str("genres")>>
            ELSE <<Str(s.resource), Num(a.pageNumber)>>
      [] s.name \in {"CreateMovieScreen", "EditMovieScreen", "SearchScreen",
                      "ExploreScreen"} -> <<Str(s.resource)>>
      [] s.name = "MovieScreen" -> <<Str("movie"), Str(ToString(a.id))>>
      [] s.name = "usePerson" -> KeysDetail("people", a.id)
      [] s.name = "useMoviesByGenre" -> movieKeysGenreMovies(a.id)
      \* [...actorKeys.detail(id), 'movies', JSON.stringify(params)]
      [] s.name = "useActorMovies" ->
            KeysDetail("actors", a.id)
            \o <<Str("movies"), JSONstringifyParams(FilterParams(a.pageNumber, a.pageSize))>>
      [] OTHER -> movieKeysActorMovies(a.id)

\* queryFn of the useQuery at site s: the request it sends.
queryFn(s, a) ==
    CASE s.name = "useList" -> getList(s.resource, a.pageNumber, a.pageSize)
      [] s.name = "useDetail" -> getDetail(s.resource, a.id)
      [] s.name = "ListScreen" ->
            IF s.resource = "genres" THEN getList("genres", 1, 100)
            ELSE getList(s.resource, a.pageNumber, limit(s.resource))
      [] s.name = "CreateMovieScreen" ->
            IF s.resource = "genres" THEN getList("genres", Omitted, Omitted)
            ELSE getList(s.resource, 1, 100)
      [] s.name \in {"EditMovieScreen", "SearchScreen"} -> getList(s.resource, 1, 100)
      [] s.name = "MovieScreen" -> getDetail("movies", a.id)
      [] s.name = "usePerson" -> getPersonDetails(a.id)
      [] s.name = "useMoviesByGenre" -> getMoviesByGenre(a.id, a.pageNumber, a.pageSize)
      [] s.name = "useActorMovies" -> getActorMovies(a.id, a.pageNumber, a.pageSize)
      [] s.name = "ExploreScreen" ->
            getPopular(IF s.resource = "popularGenres" THEN "genre" ELSE "people")
      [] OTHER -> getMoviesByActor(a.id, a.pageNumber, a.pageSize)

\* The payload of a 2xx response: it matches the schema the service declares
\* for it, or it does not (a required field is missing); NoPayload when the
\* request failed (error status, timeout, network error).
Payloads == {"valid", "malformed"}
NoPayload == "none"

\* Whether the service method behind the useQuery of site s passes the
\* payload through Schema.parse: the people service does, and so does
\* getPopularGenres; the other methods of the movie, actor, director and
\* genre services return response.data as it is.
parses(s) == s.name \in {"usePerson", "ExploreScreen"}

\* What the service method does with the outcome of its request: it
\* returns the payload ("ok") or throws, the error of the HTTP client or the
\* ZodError of Schema.parse.
serviceRead(s, payload) ==
    CASE payload = NoPayload -> "AxiosError"
      [] parses(s) /\ payload = "malformed" -> "ZodError"
      [] OTHER -> "ok"

\* --------------------------------------------------------- the mutations
\* A useMutation of the app: the hook or screen that holds it, the
\* operation, the resource and the id of the entity (Omitted for a create).
Mutation(name, op, R, id) == [name |-> name, op |-> op, resource |-> R, id |-> id]

MutationOps == {"create", "update", "delete"}
IdsOf(op) == IF op = "create" THEN {Omitted} ELSE Ids

Mutations ==
    \* useCreateX, useUpdateX, useDeleteX of the four services
    {Mutation("service", x[1], x[2], x[3]) :
        x \in {y \in MutationOps \X Resources \X (Ids \cup {Omitted}) : y[3] \in IdsOf(y[1])}}
    \* the mutations of ActorsScreen, DirectorsScreen and GenresScreen
    \cup {Mutation("ListScreen", x[1], x[2], x[3]) :
        x \in {y \in MutationOps \X {"actors", "directors", "genres"} \X (Ids \cup {Omitted}) :
                  y[3] \in IdsOf(y[1])}}
    \cup {Mutation("CreateMovieScreen", "create", "movies", Omitted)}
    \cup {Mutation("EditMovieScreen", "update", "movies", i) : i \in Ids}

\* An invalidateQueries call of an onSuccess: its queryKey filter and what
\* it is for, the lists of the resource or one entity.
Invalidation(key, target) == [key |-> key, target |-> target]

\* The invalidateQueries calls of the onSuccess of mutation m.
onSuccess(m) ==
    CASE m.name = "service" ->
            {Invalidation(KeysLists(m.resource), "lists")}
            \cup (IF m.op = "create" THEN {}
                  ELSE {Invalidation(KeysDetail(m.resource, m.id), "detail")})
      [] m.name = "EditMovieScreen" ->
            {Invalidation(<<Str("movies")>>, "lists"),
             Invalidation(<<Str("movie"), Str(ToString(m.id))>>, "detail")}
      [] OTHER -> {Invalidation(<<Str(m.resource)>>, "lists")}

\* partialMatchKey of the query library on the keys of the app (no key
\* filter of the app holds an object): the filter is a prefix of the key.
partialMatchKey(key, filter) ==
    /\ Len(filter) <= Len(key)
    /\ \A i \in 1..Len(filter) : key[i] = filter[i]

\* ---------------------------------------------------- the retry policy
\* defaultOptions of the QueryClient: the retries of a failed query and of a
\* failed mutation, and the delay in ms before the retry that follows
\* failure number attemptIndex (counted from 0).
QueryRetry == 3
MutationRetry == 1
retryDelay(attemptIndex) ==
    IF 1000 * 2^attemptIndex < 30000 THEN 1000 * 2^attemptIndex ELSE 30000

\* The retryer runs the function again when the failures so far are fewer
\* than the retries allowed.
shouldRetryOnceMore(failureCount, retry) == failureCount <= retry

shouldRetry(failureCount, retry) == failureCount < retry

\* -------------------------------------------------- query client variables
\* Observers a query is followed with, and the operations a behaviour of
\* the query client is followed through: mounts of a useQuery, refetch()
\* calls, mutate() calls and NetInfo events.
MaxObservers == 2
MaxOperations == 2
\* Resources (movies, actors, ...) the queries of the cache and the mutations
\* in flight are of, at a time.
MaxResources == 1

VARIABLES
    queryCache,     \* the queries the QueryCache holds
    fetch,          \* the query fetches in flight
    mutations,      \* the mutations in flight
    did,            \* what the last step of the query client did
    started         \* the operations started so far

qvars == <<queryCache, fetch, mutations, did, started>>

NoSite == Site("none", "none", "none")
NoRequest == Request_("none", Omitted, Omitted, Omitted)
NoMutationSite == Mutation("none", "none", "none", Omitted)

\* An observer of a query: the useQuery of a mounted component, with the
\* request its queryFn sends; n tells the components apart that are mounted
\* with the same useQuery and the same arguments.
Observer(site, request, n) == [site |-> site, queryFn |-> request, n |-> n]

\* The observers of the query q that a component with the useQuery of site
\* s and the request r has.
ObserversOf(q, s, r) == {o \in q.observers : o.site = s /\ o.queryFn = r}

\* A query of the cache, as the first useQuery of its key creates it:
\*  key, site      its key and the useQuery that created it
\*  queryFn        the request its queryFn sends: that of the options the
\*                 query was created with or fetched with last
\*  request        the request its data came from, NoRequest while it has
\*                 no data
\*  isInvalidated  whether it has been invalidated since it was fetched
\*  observers      the observers on it
Query(key, site, request) ==
    [key |-> key, site |-> site, queryFn |-> request, request |-> NoRequest,
     isInvalidated |-> FALSE, observers |-> {}]

\* A fetch of a query as it starts:
\*  key, request   the key of the query and the request sent
\*  failureCount   the failures of the retryer so far
\*  attempts       the requests sent so far
\*  sleeping       the retryer waits retryDelay before it calls queryFn
\*                 again (no request is out meanwhile)
\*  isRetryCancelled   the query lost its last observer: the retryer does
\*                 not call queryFn again
Fetch(key, request) ==
    [key |-> key, request |-> request, failureCount |-> 0, attempts |-> 1,
     sleeping |-> FALSE, isRetryCancelled |-> FALSE]

\* A mutation in flight, as mutate() starts it:
\*  m             the useMutation and its variables
\*  no            tells the mutations in flight apart that were started
\*                with the same useMutation and the same variables
\*  sleeping      the retryer waits before it calls mutationFn again
\*  failureCount  the failures of the retryer so far
\*  attempts      the requests sent so far
\*  applied       the requests of the mutation the server has carried out
\*  isPending     the screen that started it is still mounted and shows it
\*                as pending (always FALSE for the hooks of the services,
\*                which no screen uses)
Running(m, no) ==
    [m |-> m, no |-> no, sleeping |-> FALSE, failureCount |-> 0, attempts |-> 1,
     applied |-> 0, isPending |-> m.name # "service"]

\* What the last step did:
\*  type      "served" (a read answered from the cache), "fetched",
\*            "retry" (a failure the retryer sleeps after), "readFailed"
\*            (the retries of a read are used up), "retryCancelled" (a
\*            read failed with no observer left), "mutated",
\*            "mutationFailed", "netinfo", or "none"
\*  key, request   of the read
\*  served    the request the data served came from
\*  payload   the payload of the response, of a fetch
\*  error     the error the service method threw, of a retry or a failure
\*  kind      "query" or "mutation", of a retry or a failure
\*  n, delay  of a retry: the failures before it and the delay before it
\*  attempts  the requests the operation sent in all
\*  m         the mutation
\*  isConnected   of a NetInfo event
\*  applied   the requests of the mutation the server carried out in all
Nothing ==
    [type |-> "none", key |-> <<>>, request |-> NoRequest, served |-> NoRequest,
     payload |-> NoPayload, error |-> "none",
     kind |-> "none", n |-> 0, delay |-> 0, attempts |-> 0, m |-> NoMutationSite,
     isConnected |-> TRUE, applied |-> 0]

\* The query client of a freshly started app.
QueryClientInit ==
    /\ queryCache = {}
    /\ fetch = {}
    /\ mutations = {}
    /\ did = Nothing
    /\ started = 0

\* ------------------------------------------------ list screens: variables
\* Pages the server holds of a list, the last page a screen is followed to
\* (one beyond the server's last), and the longest list a screen is
\* followed to.
LastPage == 3
MaxListPage == LastPage + 1
MaxShown == 6
\* Events a list screen is followed through: end-of-list events, refreshes,
\* presses of a button that refetches, and invalidations.
MaxEvents == 4

\* The search text before a search.
NoTerm == ""

VARIABLES
    listScreen,     \* the state of the list screen that is mounted
    listCache       \* the queries of the screen's list, by page

svars == <<listScreen, listCache>>

\* A paginated list response (PaginationSchema), NoResponse for `undefined`.
Response(pageNumber, items, totalPages) ==
    [pageNumber |-> pageNumber, items |-> items, totalPages |-> totalPages,
     hasNext |-> pageNumber < totalPages]
NoResponse == [pageNumber |-> 0, items |-> <<>>, totalPages |-> 0, hasNext |-> FALSE]

\* A query of the list: its data, whether a fetch of it is in flight,
\* whether its status is 'error' (its last fetch failed) and whether its
\* data has been invalidated since it was fetched.
NoListQuery ==
    [data |-> NoResponse, isFetching |-> FALSE, isError |-> FALSE, isInvalidated |-> FALSE]

ListKeys == 1..MaxListPage

\* What the last render of the screen saw, which is what its event
\* handlers read until the next render: the page and isLoadingMore states,
\* whether allMovies was empty, and data, isFetching and isError of useQuery.
NoRender ==
    [page |-> 1, isLoadingMore |-> FALSE, empty |-> TRUE,
     data |-> NoResponse, isFetching |-> FALSE, isError |-> FALSE]

\* The state of a list screen:
\*  kind          "home", "actors" or "directors"; "none": no list screen is
\*                mounted
\*  page, allMovies, isLoadingMore
\*                the states of the component (allMovies and isLoadingMore
\*                are HomeScreen's), with the updates its handlers and
\*                effects have made since the last render
\*  rendered      the last render
\*  events        the events handled so far
\*  loads         the responses delivered to the screen, in order, since it
\*                mounted (history, for the properties)
\*  undisturbed   since then nothing but first fetches of the next page has
\*                happened: no refresh, no refetch, no failure, no page
\*                served from the cache, no event handled twice by one
\*                render (history, for the properties)
NoListScreen ==
    [kind |-> "none", page |-> 1, allMovies |-> <<>>, isLoadingMore |-> FALSE,
     rendered |-> NoRender, loads |-> <<>>, undisturbed |-> TRUE, events |-> 0]

ListScreensUnmounted ==
    /\ listScreen = NoListScreen
    /\ listCache = [k \in {} |-> NoListQuery]

\* ------------------------------------------------- service calls: variables
\* Largest totalCount and totalPages of a payload, and the largest genre id
\* and longest list of genre ids of a search.
MaxCount == 2
MaxGenres == 2

\* The paging metadata of a paginated payload (PaginationSchema): numbers
\* and booleans, whatever the server sent.
Page(totalCount, pageNumber, pageSize, totalPages, hasPrevious, hasNext) ==
    [totalCount |-> totalCount, pageNumber |-> pageNumber, pageSize |-> pageSize,
     totalPages |-> totalPages, hasPrevious |-> hasPrevious, hasNext |-> hasNext]
NoPage == Page(0, 0, 0, 0, FALSE, FALSE)

PagePayloads ==
    {Page(x[1], x[2], x[3], x[4], x[5], x[6]) :
        x \in (0..MaxCount) \X (1..2) \X (1..2) \X (0..MaxCount) \X BOOLEAN \X BOOLEAN}

\* A list of genre ids that is left out (undefined).
NoGenreIds == <<Omitted>>

\* Lists of genre ids: up to MaxGenres ids, in any order, repeats included.
GenreIdLists ==
    UNION {[1..n -> 1..MaxGenres] : n \in 0..MaxGenres}

\* MovieSearchParams; a string left out is "", a number left out Omitted.
MovieSearchParams(searchTerm, pageNumber, pageSize, sortBy, sortOrder, releaseYear, genreIds) ==
    [searchTerm |-> searchTerm, pageNumber |-> pageNumber, pageSize |-> pageSize,
     sortBy |-> sortBy, sortOrder |-> sortOrder, releaseYear |-> releaseYear,
     genreIds |-> genreIds]
NoSearchParams == MovieSearchParams("", Omitted, Omitted, "", "", Omitted, NoGenreIds)

SearchParamsGiven ==
    {MovieSearchParams(x[1], x[2], x[3], x[4], x[5], x[6], x[7]) :
        x \in {NoTerm, "a"} \X {Omitted, 2} \X {Omitted, 20} \X {"", "releaseDate"}
              \X {"", "desc"} \X {Omitted, 1999} \X ({NoGenreIds} \cup GenreIdLists)}

\* queryParams.append(name, value): one more pair of the query string.
append(name, value) == <<<<name, value>>>>

RECURSIVE forEachGenreId(_)

\* The genre ids joined in one parameter.
forEachGenreIdJoined(genreIds) ==
    LET RECURSIVE join(_)
        join(ids) == IF Len(ids) = 1 THEN ToString(Head(ids))
                     ELSE ToString(Head(ids)) \o "," \o join(Tail(ids))
    IN  append("GenreIds", join(genreIds))

\* params.genreIds.forEach(genreId => queryParams.append('GenreIds', String(genreId)))
forEachGenreId(genreIds) ==
    IF genreIds = <<>> THEN <<>>
    ELSE append("GenreIds", ToString(Head(genreIds))) \o forEachGenreId(Tail(genreIds))

\* The query parameters searchMovies appends, in order; toString() writes
\* them out as name=value pairs in that order.
searchMovies(params) ==
    (IF params.searchTerm # "" THEN append("SearchTerm", params.searchTerm) ELSE <<>>)
    \o append("PageNumber", ToString(Default(params.pageNumber, 1)))
    \o append("PageSize", ToString(Default(params.pageSize, 10)))
    \o (IF params.sortBy # "" THEN append("SortBy", params.sortBy) ELSE <<>>)
    \o (IF params.sortOrder # "" THEN append("SortOrder", params.sortOrder) ELSE <<>>)
    \o (IF params.releaseYear # Omitted
        THEN append("ReleaseYear", ToString(params.releaseYear)) ELSE <<>>)
    \o append("version", "v1")
    \o (IF params.genreIds # NoGenreIds /\ Len(params.genreIds) > 0
        THEN forEachGenreId(params.genreIds) ELSE <<>>)

VARIABLES
    service         \* the service method called last: what it was given and gave

cvars == <<service>>

\*  method    "getList" (getMovies, getActors, getDirectors, getGenres),
\*            "searchMovies" or "none"
\*  resource  of getList
\*  params    of searchMovies
\*  url       the query parameters of the request searchMovies sent
\*  payload   response.data
\*  returned  what the method returned to its caller
NoServiceCall ==
    [method |-> "none", resource |-> "none", params |-> NoSearchParams, url |-> <<>>,
     payload |-> NoPage, returned |-> NoPage]

ServicesIdle == service = NoServiceCall

\* ------------------------------------------------ search screen: variables
\* The genres offered as filters, the pages of results the server holds of
\* every search, and the ['searchMovies', ...] queries the cache holds at a
\* time.
MaxFilterGenres == 1
SearchPages == 2
MaxSearchQueries == 2

FilterGenres == 1..MaxFilterGenres
\* The text typed in the search box and the years offered; null is Omitted.
SearchTexts == {NoTerm, "a"}
FilterYears == {1999}

VARIABLES
    searchScreen,   \* the state of SearchScreen
    searchCache     \* the ['searchMovies', searchParams] queries of the cache

xvars == <<searchScreen, searchCache>>

\* useState of SearchScreen, with
\*  requestedBy   the handler whose step made searchMoviesQuery send a
\*                request, "none" when the last step sent none
SearchScreenMounted ==
    [searchQuery |-> "",
     searchParams |-> MovieSearchParams("", 1, 20, "releaseDate", "desc", Omitted, NoGenreIds),
     selectedGenres |-> <<>>, selectedYear |-> Omitted,
     hasSearched |-> FALSE, applyClicked |-> FALSE,
     requestedBy |-> "none"]

\* A query of the cache: its key (the searchParams), the request it
\* sends, the page it holds (NoResponse: none yet), whether a fetch of it
\* is in flight and whether its data has been invalidated since it was
\* fetched.
SearchQuery(key, d, fetching, invalidated) ==
    [key |-> key, url |-> searchMovies(key), data |-> d, isFetching |-> fetching,
     isInvalidated |-> invalidated]

SearchScreenInit ==
    /\ searchScreen = SearchScreenMounted
    /\ searchCache = {}

\* The state the other parts leave alone.
exceptSession == <<qvars, svars, cvars, xvars>>
exceptQueryClient == <<vars, svars, cvars, xvars>>
exceptListScreen == <<vars, qvars, cvars, xvars>>
exceptServices == <<vars, qvars, svars, xvars>>
exceptSearchScreen == <<vars, qvars, svars, cvars>>

Init ==
    /\ state = initialState
    /\ tokenStore \in {NoToken, "t1"}
    /\ userDataStore \in {NoData, JSONstringify(User("alice", ServerRole))}
    \* the mount effect has called checkAuthStatus, which has issued
    \* AsyncStorage.getItem(TOKEN_STORAGE_KEY)
    /\ hyd = [pc |-> "getToken", token |-> tokenStore, userDataString |-> NoData,
              failedAt |-> "none"]
    /\ lo = NoLogouts
    /\ calls = [c \in CallIds |-> IdleCall]
    /\ settled = NothingSettled
    /\ QueryClientInit
    /\ ListScreensUnmounted
    /\ ServicesIdle
    /\ SearchScreenInit

\* A flow of kind `kind` writes a store: the calls, other than `me`, that
\* are between their first store write and their settlement are no longer
\* clean, and note whether the writer is a login or register call; so for a
\* logoutUser under way.
Disturb(cs, me, kind) ==
    [c \in CallIds |->
        IF c # me /\ cs[c].pc \in {"setToken", "setUser", "interceptorLogout"}
        THEN [cs[c] EXCEPT !.clean = FALSE,
                           !.by = IF /\ kind \in {"login", "register"}
                                     /\ cs[c].pc # "interceptorLogout"
                                     /\ @ # "other"
                                  THEN "auth" ELSE "other"]
        ELSE cs[c]]

DisturbLogout(l) ==
    [f \in LogoutFlows |->
        IF f.pc = "done" THEN l[f] ELSE IF f.clean THEN 0 ELSE LogoutsAt(l, f.pc)]

\* ------------------------------------------------------------- api-client
\* logout(): AsyncStorage.removeItem(TOKEN_STORAGE_KEY), nothing else.
logout(store) == NoToken

\* ---------------------------------------------------------- checkAuthStatus
\* The user checkAuthStatus makes up when a token is stored without a profile.
PlaceholderUser == User("user", "user")

HydSettled == [NothingSettled EXCEPT !.kind = "hydration", !.hyd = hyd]

\* catch block of checkAuthStatus up to `await logout()`.
HydCatch ==
    /\ tokenStore' = logout(tokenStore)
    \* token and userDataString are constants of the try block
    /\ hyd' = [HydDone EXCEPT !.pc = "catchLogout", !.failedAt = hyd.pc]
    /\ calls' = Disturb(calls, 0, "hydration")
    /\ lo' = DisturbLogout(lo)
    /\ settled' = NothingSettled
    /\ UNCHANGED <<state, userDataStore>>

\* getItem(TOKEN_STORAGE_KEY) has settled; ok = FALSE when it rejected.
HydTokenRead ==
    /\ UNCHANGED exceptSession
    /\ hyd.pc = "getToken"
    /\ \E ok \in BOOLEAN :
        IF ~ok THEN HydCatch
        ELSE IF hyd.token # NoToken
        THEN /\ hyd' = [hyd EXCEPT !.pc = "getUser", !.userDataString = userDataStore]
             /\ settled' = NothingSettled
             /\ UNCHANGED <<state, tokenStore, userDataStore, lo, calls>>
        ELSE /\ state' = authReducer(state, Action("LOGIN_FAILURE", "No stored credentials"))
             /\ hyd' = HydDone
             /\ settled' = HydSettled
             /\ UNCHANGED <<tokenStore, userDataStore, lo, calls>>

\* getItem(USER_DATA_KEY) has settled.
HydUserRead ==
    /\ UNCHANGED exceptSession
    /\ hyd.pc = "getUser"
    /\ \E ok \in BOOLEAN :
        IF ~ok THEN HydCatch
        ELSE IF hyd.userDataString # NoData
        THEN /\ state' = authReducer(state,
                            Action("LOGIN_SUCCESS", JSONparse(hyd.userDataString)))
             /\ hyd' = HydDone
             /\ settled' = HydSettled
             /\ UNCHANGED <<tokenStore, userDataStore, lo, calls>>
        ELSE /\ userDataStore' = JSONstringify(PlaceholderUser)
             /\ hyd' = [hyd EXCEPT !.pc = "setUser"]
             /\ calls' = Disturb(calls, 0, "hydration")
             /\ lo' = DisturbLogout(lo)
             /\ settled' = NothingSettled
             /\ UNCHANGED <<state, tokenStore>>

\* setItem(USER_DATA_KEY, placeholder) has settled; a rejection is caught by
\* the catch block like those of the reads.
HydUserStored ==
    /\ UNCHANGED exceptSession
    /\ hyd.pc = "setUser"
    /\ \E ok \in BOOLEAN :
        IF ~ok THEN HydCatch
        ELSE /\ state' = authReducer(state, Action("LOGIN_SUCCESS", PlaceholderUser))
             /\ hyd' = HydDone
             /\ settled' = HydSettled
             /\ UNCHANGED <<tokenStore, userDataStore, lo, calls>>

\* `await logout()` of the catch block has settled.  When it rejected,
\* checkAuthStatus rejects out of its catch block and dispatches nothing.
HydLogoutDone ==
    /\ UNCHANGED exceptSession
    /\ hyd.pc = "catchLogout"
    /\ hyd' = HydDone
    /\ \E ok \in BOOLEAN :
        IF ok
        THEN /\ state' = authReducer(state, Action("LOGIN_FAILURE", "Session expired"))
             /\ settled' = HydSettled
        ELSE /\ settled' = [HydSettled EXCEPT !.result = StorageError.message]
             /\ UNCHANGED state
    /\ UNCHANGED <<tokenStore, userDataStore, lo, calls>>

\* ------------------------------------------------ login / register / request
\* The calls made so far through apiClient and of logoutUser.
FlowsMade == Cardinality({c \in CallIds : calls[c].pc # "idle"}) + LogoutsMade(lo)

\* Call ids are used in order.
CanStart(c) ==
    /\ calls[c].pc = "idle"
    /\ FlowsMade < MaxFlows
    /\ \A d \in CallIds : d < c => calls[d].pc # "idle"

\* The call enters apiClient: the request interceptor awaits NetInfo.fetch().
Started(kind, u) ==
    [IdleCall EXCEPT !.kind = kind, !.pc = "netInfo", !.username = u]

Login(c) ==
    /\ UNCHANGED exceptSession
    /\ CanStart(c)
    /\ state' = authReducer(state, Action("LOGIN_REQUEST", Null))
    /\ calls' = [calls EXCEPT ![c] = Started("login", Undefined)]
    /\ settled' = NothingSettled
    /\ UNCHANGED <<tokenStore, userDataStore, hyd, lo>>

Register(c, u) ==
    /\ UNCHANGED exceptSession
    /\ CanStart(c)
    /\ state' = authReducer(state, Action("REGISTER_REQUEST", Null))
    /\ calls' = [calls EXCEPT ![c] = Started("register", u)]
    /\ settled' = NothingSettled
    /\ UNCHANGED <<tokenStore, userDataStore, hyd, lo>>

\* login of the auth service is called: `await apiClient.post(LOGIN)`.
authServiceLogin(c) ==
    /\ UNCHANGED exceptSession
    /\ CanStart(c)
    /\ calls' = [calls EXCEPT ![c] = Started("authService.login", Undefined)]
    /\ settled' = NothingSettled
    /\ UNCHANGED <<state, tokenStore, userDataStore, hyd, lo>>

\* register of the auth service is called: `await apiClient.post(REGISTER)`.
authServiceRegister(c, u) ==
    /\ UNCHANGED exceptSession
    /\ CanStart(c)
    /\ calls' = [calls EXCEPT ![c] = Started("authService.register", u)]
    /\ settled' = NothingSettled
    /\ UNCHANGED <<state, tokenStore, userDataStore, hyd, lo>>

\* Any other request a service sends through apiClient.
Request(c) ==
    /\ UNCHANGED exceptSession
    /\ CanStart(c)
    /\ calls' = [calls EXCEPT ![c] = Started("request", Undefined)]
    /\ settled' = NothingSettled
    /\ UNCHANGED <<state, tokenStore, userDataStore, hyd, lo>>

\* The catch blocks of login and register: the message shown and thrown.
FallbackMessage(kind) ==
    IF kind = "login" THEN "Login failed" ELSE "Registration failed"
FailureType(kind) ==
    IF kind = "login" THEN "LOGIN_FAILURE" ELSE "REGISTER_FAILURE"
SuccessType(kind) ==
    IF kind = "login" THEN "LOGIN_SUCCESS" ELSE "REGISTER_SUCCESS"
errorMessage(kind, e) == OrElse(e.responseMessage, FallbackMessage(kind))

\* apiClient's promise rejects with e; a login/register call of the auth
\* context catches it, dispatches the failure and throws; the functions of
\* the auth service throw it on as it is.
Fail(c, call, e) ==
    /\ calls' = [calls EXCEPT ![c] = DoneCall]
    /\ IF call.kind \notin {"login", "register"}
       THEN /\ settled' = Settled(c, call, e, e.message)
            /\ UNCHANGED state
       ELSE /\ settled' = Settled(c, call, e, errorMessage(call.kind, e))
            /\ state' = authReducer(state,
                           Action(FailureType(call.kind), errorMessage(call.kind, e)))

\* The call resolves to its caller: login and register of the auth context
\* return true, those of the auth service the response data.
Succeed(c, call) ==
    /\ calls' = [calls EXCEPT ![c] = DoneCall]
    /\ settled' = Settled(c, call, NoError,
                          IF call.kind \in {"authService.login", "authService.register"}
                          THEN "authData" ELSE "true")

\* What the request interceptor does once NetInfo.fetch() has settled:
\* "reject" when the device is offline, else it goes on to read the token.
OnNetInfoIgnored(connected) == "getToken"

OnNetInfo(connected) == IF ~connected THEN "reject" ELSE "getToken"

\* NetInfo.fetch() has settled in the request interceptor.  When the device
\* is connected the interceptor issues getItem(TOKEN_STORAGE_KEY), which
\* reads the store, and awaits it.
NetInfoDone(c, connected) ==
    /\ UNCHANGED exceptSession
    /\ calls[c].pc = "netInfo"
    /\ LET call == [calls[c] EXCEPT !.connected = connected] IN
       IF OnNetInfo(connected) = "reject"
       THEN Fail(c, call, NoInternetError)
       ELSE /\ calls' = [calls EXCEPT ![c] =
                           [call EXCEPT !.pc = "getToken", !.token = tokenStore]]
            /\ settled' = NothingSettled
            /\ UNCHANGED state
    /\ UNCHANGED <<tokenStore, userDataStore, hyd, lo>>

\* getItem(TOKEN_STORAGE_KEY) of the request interceptor has settled: the
\* header is set from the token read and the request is dispatched; when it
\* rejected the request is not sent and the call rejects with that error.
TokenRead(c) ==
    /\ UNCHANGED exceptSession
    /\ calls[c].pc = "getToken"
    /\ \E ok \in BOOLEAN :
        IF ok
        THEN /\ calls' = [calls EXCEPT ![c] =
                            [@ EXCEPT !.pc = "http", !.sent = TRUE,
                                      !.header = AuthHeader(calls[c].token)]]
             /\ settled' = NothingSettled
             /\ UNCHANGED state
        ELSE Fail(c, calls[c], StorageError)
    /\ UNCHANGED <<tokenStore, userDataStore, hyd, lo>>

\* The user object login and register build from the response data.
UserOf(kind, username, r) ==
    IF kind = "login"
    THEN User(r.username, OrElse(r.role, "user"))
    ELSE User(OrElse(r.username, username), OrElse(r.role, "user"))

\* The response interceptor's test for an unauthorized response.
IsUnauthorizedAnyFailure(r) == r.status # 200

IsUnauthorized(r) == r.status = 401

\* The server's response (or the lack of one) arrives: the response
\* interceptor runs and, on success, the caller continues to its next await.
Respond(c, r) ==
    /\ UNCHANGED exceptSession
    /\ calls[c].pc = "http"
    /\ LET k == calls[c].kind
           call == [calls[c] EXCEPT !.resp = r]
       IN
       IF r.status = 200
       THEN IF k = "request"
            THEN /\ Succeed(c, call)
                 /\ UNCHANGED <<state, tokenStore, lo>>
            ELSE IF k \in {"authService.login", "authService.register"}
            THEN \* await AsyncStorage.setItem(TOKEN_STORAGE_KEY, authData.token)
                 /\ tokenStore' = r.token
                 /\ calls' = Disturb([calls EXCEPT ![c] =
                                [call EXCEPT !.pc = "setToken", !.token = NoToken,
                                             !.header = Undefined]], c, k)
                 /\ lo' = DisturbLogout(lo)
                 /\ settled' = NothingSettled
                 /\ UNCHANGED state
            ELSE LET user == UserOf(k, call.username, r) IN
                 IF k = "login" \/ r.token # Undefined
                 THEN \* await AsyncStorage.setItem(TOKEN_STORAGE_KEY, token)
                      /\ tokenStore' = r.token
                      /\ calls' = Disturb([calls EXCEPT ![c] =
                                     [call EXCEPT !.pc = "setToken", !.user = user,
                                                  !.token = NoToken,
                                                  !.header = Undefined]], c, k)
                      /\ lo' = DisturbLogout(lo)
                      /\ settled' = NothingSettled
                      /\ UNCHANGED state
                 ELSE \* register without a token: nothing is stored
                      /\ Succeed(c, [call EXCEPT !.user = user])
                      /\ state' = authReducer(state, Action(SuccessType(k), user))
                      /\ UNCHANGED <<tokenStore, lo>>
       ELSE IF IsUnauthorized(r)
       THEN \* await logout()
            /\ tokenStore' = logout(tokenStore)
            /\ calls' = Disturb([calls EXCEPT ![c] =
                           [call EXCEPT !.pc = "interceptorLogout", !.token = NoToken,
                                        !.header = Undefined]], c, k)
            /\ lo' = DisturbLogout(lo)
            /\ settled' = NothingSettled
            /\ UNCHANGED state
       ELSE /\ Fail(c, call, AxiosError(r))
            /\ UNCHANGED <<tokenStore, lo>>
    /\ UNCHANGED <<userDataStore, hyd>>

\* `await logout()` of the response interceptor has settled: the caller gets
\* the "Session expired" error, or the error of removeItem when it rejected.
InterceptorLogoutDone(c) ==
    /\ UNCHANGED exceptSession
    /\ calls[c].pc = "interceptorLogout"
    /\ \E ok \in BOOLEAN :
        Fail(c, calls[c], IF ok THEN SessionExpiredError ELSE StorageError)
    /\ UNCHANGED <<tokenStore, userDataStore, hyd, lo>>

\* setItem(TOKEN_STORAGE_KEY) has settled: the profile is stored next (the
\* functions of the auth service return the response data instead); a
\* rejection goes to the catch block.
SetTokenDone(c) ==
    /\ UNCHANGED exceptSession
    /\ calls[c].pc = "setToken"
    /\ \E ok \in BOOLEAN :
        IF ok /\ calls[c].kind \in {"authService.login", "authService.register"}
        THEN /\ Succeed(c, calls[c])
             /\ UNCHANGED <<state, userDataStore, lo>>
        ELSE IF ok
        THEN /\ userDataStore' = JSONstringify(calls[c].user)
             /\ calls' = Disturb([calls EXCEPT ![c].pc = "setUser"], c, calls[c].kind)
             /\ lo' = DisturbLogout(lo)
             /\ settled' = NothingSettled
             /\ UNCHANGED state
        ELSE /\ Fail(c, calls[c], StorageError)
             /\ UNCHANGED <<userDataStore, lo>>
    /\ UNCHANGED <<tokenStore, hyd>>

\* setItem(USER_DATA_KEY) has settled: dispatch and return true; a rejection
\* goes to the catch block.
SetUserDone(c) ==
    /\ UNCHANGED exceptSession
    /\ calls[c].pc = "setUser"
    /\ \E ok \in BOOLEAN :
        IF ok
        THEN /\ state' = authReducer(state,
                            Action(SuccessType(calls[c].kind), calls[c].user))
             /\ Succeed(c, calls[c])
        ELSE Fail(c, calls[c], StorageError)
    /\ UNCHANGED <<tokenStore, userDataStore, hyd, lo>>

\* ---------------------------------------------------------------- logoutUser
\* logoutUser is called (the Logout button of the profile tab, which stays
\* enabled while a logoutUser is under way): `await logout()`.
LogoutUser ==
    /\ UNCHANGED exceptSession
    /\ LogoutsMade(lo) < MaxLogouts
    /\ FlowsMade < MaxFlows
    /\ tokenStore' = logout(tokenStore)
    /\ lo' = [lo EXCEPT ![LogoutFlow("logout", TRUE)] = @ + 1]
    /\ calls' = Disturb(calls, 0, "logoutUser")
    /\ settled' = NothingSettled
    /\ UNCHANGED <<state, userDataStore, hyd>>

\* The logoutUser flow f rejects with the error of the storage call it
\* awaited: nothing more is removed and nothing is dispatched.
LogoutRejected(f) ==
    /\ lo' = [lo EXCEPT ![f] = @ - 1, ![LogoutFlow("done", TRUE)] = @ + 1]
    /\ settled' = [NothingSettled EXCEPT !.kind = "logoutUser", !.lo = f,
                                         !.result = StorageError.message]
    /\ UNCHANGED <<state, userDataStore, calls>>

\* logout() of the flow f has settled: `await
\* AsyncStorage.removeItem(USER_DATA_KEY)`.
LogoutTokenRemoved(f) ==
    /\ UNCHANGED exceptSession
    /\ f.pc = "logout"
    /\ lo[f] > 0
    /\ \E ok \in BOOLEAN :
        IF ok
        THEN /\ userDataStore' = NoData
             /\ lo' = [lo EXCEPT ![f] = @ - 1,
                                 ![LogoutFlow("removeUser", f.clean)] = @ + 1]
             /\ calls' = Disturb(calls, 0, "logoutUser")
             /\ settled' = NothingSettled
             /\ UNCHANGED state
        ELSE LogoutRejected(f)
    /\ UNCHANGED <<tokenStore, hyd>>

\* removeItem(USER_DATA_KEY) of the flow f has settled: dispatch LOGOUT, go
\* to /login.
LogoutUserRemoved(f) ==
    /\ UNCHANGED exceptSession
    /\ f.pc = "removeUser"
    /\ lo[f] > 0
    /\ \E ok \in BOOLEAN :
        IF ok
        THEN /\ state' = authReducer(state, Action("LOGOUT", Null))
             /\ lo' = [lo EXCEPT ![f] = @ - 1, ![LogoutFlow("done", TRUE)] = @ + 1]
             /\ settled' = [NothingSettled EXCEPT !.kind = "logoutUser", !.lo = f]
             /\ UNCHANGED <<userDataStore, calls>>
        ELSE LogoutRejected(f)
    /\ UNCHANGED <<tokenStore, hyd>>

\* ------------------------------------------------------------- the rest
\* clearError, as the login and register screens call it when a field is
\* edited: `if (error) clearError()`.
clearError ==
    /\ UNCHANGED exceptSession
    /\ state.error # Null
    /\ state' = authReducer(state, Action("CLEAR_ERROR", Null))
    /\ settled' = NothingSettled
    /\ UNCHANGED <<tokenStore, userDataStore, hyd, lo, calls>>

\* The responses a call of a kind is answered with.  Whether an error
\* payload carries a message matters to login and register only, and to
\* them only when the status is not 401 (the response interceptor replaces
\* the error of a 401): the other payloads are taken with a message.
Responses(kind) ==
    SuccessResponses(kind)
    \cup {r \in ErrorResponses :
            \/ r.message # Undefined
            \/ kind # "request" /\ r.status # 401}
    \cup {NoResp}

\* Steps the program takes by itself once a flow has been started.
Continue ==
    \/ HydTokenRead
    \/ HydUserRead
    \/ HydUserStored
    \/ HydLogoutDone
    \/ \E c \in CallIds, connected \in BOOLEAN : NetInfoDone(c, connected)
    \/ \E c \in CallIds : TokenRead(c)
    \/ \E c \in CallIds : \E r \in Responses(calls[c].kind) : Respond(c, r)
    \/ \E c \in CallIds : InterceptorLogoutDone(c)
    \/ \E c \in CallIds : SetTokenDone(c)
    \/ \E c \in CallIds : SetUserDone(c)
    \/ \E f \in LogoutFlows : LogoutTokenRemoved(f)
    \/ \E f \in LogoutFlows : LogoutUserRemoved(f)

Next ==
    \/ HydTokenRead
    \/ HydUserRead
    \/ HydUserStored
    \/ HydLogoutDone
    \/ \E c \in CallIds : Login(c)
    \/ \E c \in CallIds, u \in Usernames : Register(c, u)
    \/ \E c \in CallIds : Request(c)
    \/ \E c \in CallIds, connected \in BOOLEAN : NetInfoDone(c, connected)
    \/ \E c \in CallIds : TokenRead(c)
    \/ \E c \in CallIds : \E r \in Responses(calls[c].kind) : Respond(c, r)
    \/ \E c \in CallIds : InterceptorLogoutDone(c)
    \/ \E c \in CallIds : SetTokenDone(c)
    \/ \E c \in CallIds : SetUserDone(c)
    \/ LogoutUser
    \/ \E f \in LogoutFlows : LogoutTokenRemoved(f)
    \/ \E f \in LogoutFlows : LogoutUserRemoved(f)
    \/ clearError

Spec == Init /\ [][Next]_vars

\* A started flow runs on: storage, NetInfo and the HTTP client (15 s
\* timeout) always settle.  Nothing obliges the user to act.
FairSpec == Spec /\ WF_vars(Continue)

\* The session with the functions of the auth service (services/
\* auth-service), which no screen and no context of the app imports: a
\* caller of them is added to the steps of the session.
AuthServiceNext ==
    \/ Next
    \/ \E c \in CallIds : authServiceLogin(c)
    \/ \E c \in CallIds, u \in Usernames : authServiceRegister(c, u)

AuthServiceSpec == Init /\ [][AuthServiceNext]_vars

\* ====================================================================
\* The query client (contexts/query-client-provider.tsx) with the reads and
\* the mutations of the services and of the screens
\* ====================================================================
\* The session of the query client's specification: hydrated, nothing in
\* flight.
SessionAtRest ==
    /\ state = authReducer(initialState, Action("LOGIN_SUCCESS", User("alice", ServerRole)))
    /\ tokenStore = "t1"
    /\ userDataStore = JSONstringify(User("alice", ServerRole))
    /\ hyd = HydDone
    /\ lo = NoLogouts
    /\ calls = [c \in CallIds |-> DoneCall]
    /\ settled = NothingSettled

QueryInit ==
    SessionAtRest /\ QueryClientInit /\ ListScreensUnmounted /\ ServicesIdle /\ SearchScreenInit

Find(key) == {q \in queryCache : q.key = key}

\* The resources in use, and whether a read or a mutation of the resource R
\* keeps them within the bound.
ResourcesInUse ==
    {q.site.resource : q \in queryCache} \cup {x.m.resource : x \in mutations}
WithinResources(R) == Cardinality(ResourcesInUse \cup {R}) <= MaxResources

\* query.fetch() of the query q, the fetches in flight being fs: a fetch in
\* flight is joined (its retryer goes on if it had been told not to retry),
\* unless cancelRefetch is set and the query has data, in which case it is
\* cancelled and a new one starts.
fetchQuery(fs, q, cancelRefetch) ==
    LET running == {f \in fs : f.key = q.key} IN
    IF running # {} /\ ~(cancelRefetch /\ q.request # NoRequest)
    THEN (fs \ running) \cup {[f EXCEPT !.isRetryCancelled = FALSE] : f \in running}
    ELSE (fs \ running) \cup {Fetch(q.key, q.queryFn)}

\* A component mounts with the useQuery of site s, arguments a: the query
\* of the key is created if the cache has none, and the observer
\* subscribes.  Data that is cached, not invalidated and not stale (younger
\* than staleTime) is served and no request is sent, else the query is
\* fetched with the options of the observer, or the fetch in flight is
\* joined.
Read(s, a) ==
    /\ started < MaxOperations
    /\ WithinResources(s.resource)
    /\ \E stale \in BOOLEAN :
        LET key == queryKey(s, a)
            hit == Find(key)
            q == IF hit = {} THEN Query(key, s, queryFn(s, a))
                 ELSE CHOOSE x \in hit : TRUE
            o == Observer(s, queryFn(s, a),
                          Cardinality(ObserversOf(q, s, queryFn(s, a))) + 1)
            fresh == q.request # NoRequest /\ ~stale /\ ~q.isInvalidated
            joins == \E f \in fetch : f.key = key
            observed == [q EXCEPT !.observers = @ \cup {o},
                                  !.queryFn = IF fresh \/ joins THEN @ ELSE o.queryFn]
        IN  /\ hit # {} \/ Cardinality(queryCache) < MaxQueries
            /\ Cardinality(q.observers) < MaxObservers
            /\ stale => q.request # NoRequest
            /\ queryCache' = (queryCache \ hit) \cup {observed}
            /\ IF fresh
               THEN /\ did' = [Nothing EXCEPT !.type = "served", !.key = key,
                                              !.request = o.queryFn,
                                              !.served = q.request]
                    /\ UNCHANGED fetch
               ELSE /\ fetch' = fetchQuery(fetch, observed, FALSE)
                    /\ did' = Nothing
    /\ started' = started + 1
    /\ UNCHANGED mutations
    /\ UNCHANGED exceptQueryClient

\* The component of the observer o of the query q unmounts (its screen is
\* left); of the components mounted alike the one mounted last is taken.
\* When the query has no observer left, the retryer of its fetch is told
\* not to retry.
Unmount(q, o) ==
    /\ q \in queryCache
    /\ o \in q.observers
    /\ o.n = Cardinality(ObserversOf(q, o.site, o.queryFn))
    /\ queryCache' = (queryCache \ {q}) \cup {[q EXCEPT !.observers = @ \ {o}]}
    /\ fetch' = IF q.observers = {o}
                THEN {IF f.key = q.key THEN [f EXCEPT !.isRetryCancelled = TRUE] ELSE f :
                         f \in fetch}
                ELSE fetch
    /\ did' = Nothing
    /\ UNCHANGED <<mutations, started>>
    /\ UNCHANGED exceptQueryClient

\* The useQuery sites whose screen calls refetch() of the query: the list
\* screens (pull to refresh, Try Again, Refresh), ExploreScreen, and the
\* two queries each of the actor-movies and the genre-movies screen.
RefetchSites ==
    {Site("ListScreen", R, "list") : R \in Resources}
    \cup {Site("ExploreScreen", R, "list") : R \in {"popularGenres", "popularPeople"}}
    \cup {Site("useDetail", R, "detail") : R \in {"actors", "genres"}}
    \cup {Site("useMoviesByActor", "movies", "list"),
          Site("useMoviesByGenre", "movies", "list")}

\* The arguments of the useQuery a screen calls refetch() of: the
\* actor-movies screen calls useMoviesByActor with the id only.
RefetchArgs(s) ==
    IF s.name = "useMoviesByActor" THEN {Args(i, Omitted, Omitted) : i \in Ids}
    ELSE SiteArgs(s)

\* refetch() of the useQuery of site s, arguments a, on a mounted screen:
\* the query is fetched with the options of the observer whatever the
\* cache holds for the key; a fetch in flight of a query with data is
\* cancelled for the new one.
refetch(s, a) ==
    /\ started < MaxOperations
    /\ \E q \in Find(queryKey(s, a)) :
        LET joins == /\ \E f \in fetch : f.key = q.key
                     /\ q.request = NoRequest
            fetched == [q EXCEPT !.queryFn = IF joins THEN @ ELSE queryFn(s, a)]
        IN  /\ ObserversOf(q, s, queryFn(s, a)) # {}
            /\ queryCache' = (queryCache \ {q}) \cup {fetched}
            /\ fetch' = fetchQuery(fetch, fetched, TRUE)
    /\ did' = Nothing
    /\ started' = started + 1
    /\ UNCHANGED mutations
    /\ UNCHANGED exceptQueryClient

\* The request of the fetch f was answered and the service method returned
\* the payload: it is the data of the query.
FetchSucceeded(f) ==
    /\ f \in fetch
    /\ ~f.sleeping
    /\ \E payload \in Payloads :
        /\ serviceRead((CHOOSE q \in Find(f.key) : TRUE).site, payload) = "ok"
        /\ did' = [Nothing EXCEPT !.type = "fetched", !.key = f.key,
                                  !.request = f.request, !.payload = payload,
                                  !.attempts = f.attempts]
    /\ queryCache' = {IF q.key = f.key
                      THEN [q EXCEPT !.request = f.request, !.isInvalidated = FALSE]
                      ELSE q : q \in queryCache}
    /\ fetch' = fetch \ {f}
    /\ UNCHANGED <<mutations, started>>
    /\ UNCHANGED exceptQueryClient

\* The service method threw: the retryer gives up when the retries are
\* used up or it has been told not to retry, else it counts the failure and
\* sleeps retryDelay.
FetchFailed(f) ==
    /\ f \in fetch
    /\ ~f.sleeping
    /\ \E payload \in Payloads \cup {NoPayload} :
        LET q == CHOOSE x \in Find(f.key) : TRUE
            error == serviceRead(q.site, payload)
        IN
        /\ error # "ok"
        /\ IF shouldRetry(f.failureCount, QueryRetry) /\ ~f.isRetryCancelled
           THEN /\ fetch' = (fetch \ {f})
                               \cup {[f EXCEPT !.failureCount = @ + 1, !.sleeping = TRUE]}
                /\ did' = [Nothing EXCEPT !.type = "retry", !.kind = "query",
                                          !.key = f.key, !.payload = payload,
                                          !.error = error, !.n = f.failureCount,
                                          !.delay = retryDelay(f.failureCount)]
           ELSE /\ fetch' = fetch \ {f}
                /\ did' = [Nothing EXCEPT
                              !.type = IF shouldRetry(f.failureCount, QueryRetry)
                                       THEN "retryCancelled" ELSE "readFailed",
                              !.kind = "query",
                              !.key = f.key, !.payload = payload,
                              !.error = error, !.attempts = f.attempts]
    /\ UNCHANGED <<queryCache, mutations, started>>
    /\ UNCHANGED exceptQueryClient

\* The sleep of the retryer of the fetch f is over: it calls queryFn again,
\* or ends the fetch with the error when it has been told not to retry
\* meanwhile.
FetchRetried(f) ==
    /\ f \in fetch
    /\ f.sleeping
    /\ IF f.isRetryCancelled
       THEN /\ fetch' = fetch \ {f}
            /\ did' = [Nothing EXCEPT !.type = "retryCancelled", !.kind = "query",
                                      !.key = f.key, !.attempts = f.attempts]
       ELSE /\ fetch' = (fetch \ {f})
                           \cup {[f EXCEPT !.sleeping = FALSE, !.attempts = @ + 1]}
            /\ did' = Nothing
    /\ UNCHANGED <<queryCache, mutations, started>>
    /\ UNCHANGED exceptQueryClient

\* gcTime has passed for a query that has no observer and is not being
\* fetched: it leaves the cache.
GarbageCollect(q) ==
    /\ q \in queryCache
    /\ q.observers = {}
    /\ \A f \in fetch : f.key # q.key
    /\ queryCache' = queryCache \ {q}
    /\ did' = Nothing
    /\ UNCHANGED <<fetch, mutations, started>>
    /\ UNCHANGED exceptQueryClient

\* queryClient.invalidateQueries({ queryKey: filter }) on a cache: the
\* queries the filter matches are marked.
invalidateQueries(cache, filter) ==
    {IF partialMatchKey(q.key, filter) THEN [q EXCEPT !.isInvalidated = TRUE] ELSE q :
        q \in cache}

\* The cache after all the invalidateQueries calls of a set.
RECURSIVE invalidateAll(_, _)
invalidateAll(cache, invs) ==
    IF invs = {} THEN cache
    ELSE LET i == CHOOSE x \in invs : TRUE
         IN  invalidateAll(invalidateQueries(cache, i.key), invs \ {i})

\* The fetches in flight after invalidateQueries calls with the filters:
\* each marks its queries and then fetches again, with cancelRefetch, those
\* of them that have an observer.
refetchQueries(fs, cache, filters) ==
    LET active == {q \in cache : /\ q.observers # {}
                                 /\ \E filter \in filters : partialMatchKey(q.key, filter)}
        restarted == {q \in active : q.request # NoRequest \/ \A f \in fs : f.key # q.key}
    IN  {IF \E q \in active : f.key = q.key
         THEN [f EXCEPT !.isRetryCancelled = FALSE] ELSE f :
            f \in {g \in fs : \A q \in restarted : g.key # q.key}}
        \cup {Fetch(q.key, q.queryFn) : q \in restarted}

\* Whether a screen that is mounted shows one of its mutations of the
\* operations ops as pending.
isPending(name, R, ops) ==
    \E x \in mutations :
        x.isPending /\ x.m.name = name /\ x.m.resource = R /\ x.m.op \in ops

\* What the screens make of isPending before they call mutate(): the save
\* button of the list screens is disabled while the create or the update
\* mutation is pending and their confirmDelete returns while the delete
\* mutation is; the submit button of the create and edit movie screens is
\* disabled while their mutation is.  The hooks of the services have no
\* such condition.
canMutate(m) ==
    CASE m.name = "ListScreen" ->
            IF m.op = "delete" THEN ~isPending(m.name, m.resource, {"delete"})
            ELSE ~isPending(m.name, m.resource, {"create", "update"})
      [] m.name \in {"CreateMovieScreen", "EditMovieScreen"} ->
            ~\E x \in mutations : x.isPending /\ x.m = m
      [] OTHER -> TRUE

\* mutate() of the useMutation m: mutationFn is called.  Nothing in the app
\* passes the state of NetInfo on to the library's onlineManager, which
\* reports a network as long as it is told nothing, so the mutation is not
\* held back while the device is offline: its request is refused by the
\* request interceptor and the mutation fails (MutationFailed).
Mutate(m) ==
    /\ started < MaxOperations
    /\ WithinResources(m.resource)
    /\ canMutate(m)
    /\ mutations' = mutations \cup
          {Running(m, CHOOSE n \in 1..MaxOperations :
                        /\ \A x \in mutations : x.m = m => x.no # n
                        /\ \A k \in 1..(n - 1) : \E x \in mutations : x.m = m /\ x.no = k)}
    /\ did' = Nothing
    /\ started' = started + 1
    /\ UNCHANGED <<queryCache, fetch>>
    /\ UNCHANGED exceptQueryClient

\* The screen that started the mutation x is left: its useMutation unmounts
\* with it (a screen mounted later shows none of the mutations as pending);
\* the mutation goes on.
UnmountMutation(x) ==
    /\ x \in mutations
    /\ x.isPending
    /\ mutations' = {IF /\ y.m.name = x.m.name
                        /\ y.m.resource = x.m.resource
                        /\ x.m.name = "EditMovieScreen" => y.m.id = x.m.id
                     THEN [y EXCEPT !.isPending = FALSE] ELSE y : y \in mutations}
    /\ did' = Nothing
    /\ UNCHANGED <<queryCache, fetch, started>>
    /\ UNCHANGED exceptQueryClient

\* The server carried out the request of the mutation x and its response
\* arrived: onSuccess runs, and its invalidateQueries calls mark the queries
\* they match and fetch the observed ones again.
MutationSucceeded(x) ==
    /\ x \in mutations
    /\ ~x.sleeping
    /\ queryCache' = invalidateAll(queryCache, onSuccess(x.m))
    /\ fetch' = refetchQueries(fetch, queryCache, {i.key : i \in onSuccess(x.m)})
    /\ mutations' = mutations \ {x}
    /\ did' = [Nothing EXCEPT !.type = "mutated", !.m = x.m,
                              !.attempts = x.attempts,
                              !.applied = x.applied + 1]
    /\ UNCHANGED started
    /\ UNCHANGED exceptQueryClient

\* The request of the mutation failed: one retry, then the error.
MutationFailedInvalidates(x) ==
    /\ x \in mutations
    /\ ~x.sleeping
    /\ mutations' = mutations \ {x}
    /\ queryCache' = invalidateAll(queryCache, onSuccess(x.m))
    /\ did' = [Nothing EXCEPT !.type = "mutationFailed", !.kind = "mutation",
                              !.m = x.m, !.attempts = x.attempts,
                              !.applied = x.applied]
    /\ UNCHANGED <<fetch, started>>
    /\ UNCHANGED exceptQueryClient

\* The promise of the request of the mutation x rejects after the server
\* refused the request or never got it (applied = 0), or after it carried
\* the request out and the response was lost or came after the timeout
\* (applied = 1): the retryer counts the failure and sleeps, or gives up
\* when the retry is used up.
MutationFailed(x) ==
    /\ x \in mutations
    /\ ~x.sleeping
    /\ \E applied \in 0..1 :
        IF shouldRetry(x.failureCount, MutationRetry)
        THEN /\ mutations' = (mutations \ {x})
                                \cup {[x EXCEPT !.failureCount = @ + 1, !.sleeping = TRUE,
                                                !.applied = @ + applied]}
             /\ did' = [Nothing EXCEPT !.type = "retry", !.kind = "mutation",
                                       !.n = x.failureCount,
                                       !.delay = retryDelay(x.failureCount),
                                       !.m = x.m]
        ELSE /\ mutations' = mutations \ {x}
             /\ did' = [Nothing EXCEPT !.type = "mutationFailed", !.kind = "mutation",
                                       !.m = x.m, !.attempts = x.attempts,
                                       !.applied = x.applied + applied]
    /\ UNCHANGED <<queryCache, fetch, started>>
    /\ UNCHANGED exceptQueryClient

\* The sleep of the retryer of the mutation x is over: it calls mutationFn
\* again.
MutationRetried(x) ==
    /\ x \in mutations
    /\ x.sleeping
    /\ mutations' = (mutations \ {x}) \cup {[x EXCEPT !.sleeping = FALSE, !.attempts = @ + 1]}
    /\ did' = Nothing
    /\ UNCHANGED <<queryCache, fetch, started>>
    /\ UNCHANGED exceptQueryClient

\* The listener of NetInfo.addEventListener is called with a state: it
\* acts when the state is connected, and keeps nothing.
\* resumePausedMutations() finds no paused mutation (see Mutate) and leaves
\* the mutations in flight as they are; invalidateQueries() marks every
\* query and fetches the observed ones again.
NetInfoEvent(isConnected) ==
    /\ started < MaxOperations
    /\ IF isConnected
       THEN /\ queryCache' = invalidateQueries(queryCache, <<>>)
            /\ fetch' = refetchQueries(fetch, queryCache, {<<>>})
       ELSE UNCHANGED <<queryCache, fetch>>
    /\ did' = [Nothing EXCEPT !.type = "netinfo", !.isConnected = isConnected]
    /\ started' = started + 1
    /\ UNCHANGED mutations
    /\ UNCHANGED exceptQueryClient

QueryNext ==
    \/ \E s \in ReadSites : \E a \in SiteArgs(s) : Read(s, a)
    \/ \E q \in queryCache : \E o \in q.observers : Unmount(q, o)
    \/ \E s \in RefetchSites : \E a \in RefetchArgs(s) : refetch(s, a)
    \/ \E f \in fetch : FetchSucceeded(f)
    \/ \E f \in fetch : FetchFailed(f)
    \/ \E f \in fetch : FetchRetried(f)
    \/ \E q \in queryCache : GarbageCollect(q)
    \/ \E m \in Mutations : Mutate(m)
    \/ \E x \in mutations : UnmountMutation(x)
    \/ \E x \in mutations : MutationSucceeded(x)
    \/ \E x \in mutations : MutationFailed(x)
    \/ \E x \in mutations : MutationRetried(x)
    \/ \E isConnected \in BOOLEAN : NetInfoEvent(isConnected)

allvars == <<vars, qvars, svars, cvars, xvars>>

QuerySpec == QueryInit /\ [][QueryNext]_allvars

\* ====================================================================
\* The list screens with infinite scroll: HomeScreen (app/(tabs)/home.tsx),
\* ActorsScreen and DirectorsScreen (app/director/index.tsx).  The search
\* screen (app/search.tsx) is followed on its own below.
\* ====================================================================
\* An event handler is a step of its own: it reads the values of the last
\* render (its closure) and queues state updates.  The render that follows
\* is another step, taken with the effects it runs; other events and
\* answers of the server may come in between.
ListScreenKinds == {"home", "actors", "directors"}

\* The items of the server's page p: ids.
Item(p, i) == 10 * p + i
\* The server holds LastPage pages of every list.
TotalPages == LastPage
\* What the server may answer to a request for page k: a full page or a
\* page of one item (an empty one beyond the last page), with any hasNext:
\* the screens take the flag as it comes.
ServerResponses(k) ==
    {[Response(k, items, TotalPages) EXCEPT !.hasNext = hasNext] :
        items \in (IF k <= TotalPages
                   THEN {<<Item(k, 1), Item(k, 2)>>, <<Item(k, 1)>>}
                   ELSE {<<>>}),
        hasNext \in BOOLEAN}

\* The key of the query the screen's observer is on: that of the page of
\* the last render.
ObservedKey(scr) == scr.rendered.page
\* data, isFetching, isLoading (a first fetch is in flight) and isError of
\* useQuery, as the last render got them.
data == listScreen.rendered.data
isFetching == listScreen.rendered.isFetching
isLoading == isFetching /\ data = NoResponse
isError == listScreen.rendered.isError

\* hasMovies() of HomeScreen.
hasMovies == ~listScreen.rendered.empty \/ (data # NoResponse /\ data.items # <<>>)

\* Whether the screen renders its FlatList, which holds onEndReached and
\* the RefreshControl: the home screen renders a spinner instead during the
\* first load, the actors and directors screens a spinner while isLoading
\* and the error box while isError.
FlatListRendered ==
    CASE listScreen.kind = "home" ->
            ~(isLoading /\ listScreen.rendered.page = 1 /\ ~hasMovies)
      [] OTHER -> ~isLoading /\ ~isError

\* The screen mounts: page 1, nothing loaded, the first fetch started.
ListInit ==
    /\ SessionAtRest
    /\ QueryClientInit
    /\ ServicesIdle
    /\ SearchScreenInit
    /\ \E kind \in ListScreenKinds :
        /\ listScreen = [NoListScreen EXCEPT !.kind = kind,
                                             !.rendered.isFetching = TRUE]
        /\ listCache = [k \in ListKeys |->
                          IF k = 1 THEN [NoListQuery EXCEPT !.isFetching = TRUE]
                          ELSE NoListQuery]

\* The effect on [data, page] of HomeScreen, run when data or page changed:
\* page 1 replaces the accumulated list, a later page is appended to it.
accumulateReplacing(prev, page, d) ==
    IF d = NoResponse THEN prev ELSE d.items

accumulate(prev, page, d) ==
    IF d = NoResponse THEN prev
    ELSE IF page = 1 THEN d.items
    ELSE prev \o d.items

\* The list the screen shows: allMovies on the home screen, the items of
\* the observed query on the others; the actors and directors screens show
\* a spinner instead while isLoading and the error box while isError.
Displayed ==
    CASE listScreen.kind = "home" -> listScreen.allMovies
      [] listScreen.kind \in {"actors", "directors"} /\ (isLoading \/ isError) -> <<>>
      [] OTHER -> IF data # NoResponse THEN data.items ELSE <<>>

\* A fetch of the query q starts: a query without data goes back to the
\* status 'pending', one with data keeps its status until the answer.
startFetch(q) ==
    [q EXCEPT !.isFetching = TRUE, !.isError = (@ /\ q.data # NoResponse)]

\* The observer turns to the key k: a query without data is fetched, one
\* with data is refetched when it is stale (staleTime has passed, or it
\* has been invalidated).
Observe(c, k, stale) ==
    IF c[k].data = NoResponse \/ stale \/ c[k].isInvalidated
    THEN [c EXCEPT ![k] = startFetch(@)]
    ELSE c

\* Whether the component has something to render: a state or the result of
\* the observed query differs from what the last render saw.
NeedsRender ==
    LET r == listScreen.rendered
        q == listCache[r.page]
    IN  \/ listScreen.page # r.page
        \/ listScreen.isLoadingMore # r.isLoadingMore
        \/ (listScreen.allMovies = <<>>) # r.empty
        \/ q.data # r.data
        \/ q.isFetching # r.isFetching
        \/ q.isError # r.isError

\* The component renders and its effects run: useQuery turns its observer to
\* the key of the page state, the effect on [data, page] of HomeScreen
\* accumulates, its effect on [isFetching] releases isLoadingMore when the
\* observed query is not fetching.  The updates the effects queue are
\* rendered by the next render.
Render ==
    /\ listScreen.kind # "none"
    /\ NeedsRender
    /\ \E stale \in BOOLEAN :
        LET r == listScreen.rendered
            k == listScreen.page
            turned == k # r.page
            cached == turned /\ listCache[k].data # NoResponse
            c == IF turned THEN Observe(listCache, k, stale) ELSE listCache
            q == c[k]
            home == listScreen.kind = "home"
            accumulated ==
                IF home /\ (q.data # r.data \/ turned)
                THEN accumulate(listScreen.allMovies, k, q.data)
                ELSE listScreen.allMovies
            loadingMore ==
                IF home /\ q.isFetching # r.isFetching /\ ~q.isFetching THEN FALSE
                ELSE listScreen.isLoadingMore
            delivered == q.data # NoResponse /\ q.data # r.data
            scr == [listScreen EXCEPT
                       !.allMovies = accumulated,
                       !.isLoadingMore = loadingMore,
                       !.rendered = [page |-> k,
                                     isLoadingMore |-> listScreen.isLoadingMore,
                                     empty |-> listScreen.allMovies = <<>>,
                                     data |-> q.data,
                                     isFetching |-> q.isFetching,
                                     isError |-> q.isError]]
        IN  /\ stale => cached
            /\ listCache' = c
            /\ listScreen' =
                  IF cached
                  THEN [scr EXCEPT !.undisturbed = FALSE, !.loads = <<>>]
                  ELSE IF delivered /\ scr.undisturbed /\ Len(scr.loads) < MaxListPage
                  THEN [scr EXCEPT !.loads = Append(@, q.data)]
                  ELSE scr
    /\ Len(listScreen'.allMovies) <= MaxShown
    /\ UNCHANGED exceptListScreen

\* The fetch of the query k is answered with r.
ListFetched(k, r) ==
    /\ listCache[k].isFetching
    /\ listCache' = [listCache EXCEPT ![k] = [data |-> r, isFetching |-> FALSE,
                                              isError |-> FALSE, isInvalidated |-> FALSE]]
    /\ UNCHANGED listScreen
    /\ UNCHANGED exceptListScreen

\* The fetch of the query k has failed for good.
ListFetchFailed(k) ==
    /\ listCache[k].isFetching
    /\ listCache' = [listCache EXCEPT ![k].isFetching = FALSE, ![k].isError = TRUE]
    /\ listScreen' = IF k = ObservedKey(listScreen)
                     THEN [listScreen EXCEPT !.undisturbed = FALSE, !.loads = <<>>]
                     ELSE listScreen
    /\ UNCHANGED exceptListScreen

\* Whether loadMore asks for the next page: the condition of its `if`, on
\* the values of the render the handler belongs to.
canLoadMore(scr) ==
    CASE scr.kind = "home" ->
            scr.rendered.data.hasNext /\ ~scr.rendered.isLoadingMore
                                      /\ ~scr.rendered.isFetching
      [] OTHER -> scr.rendered.data.hasNext /\ ~scr.rendered.isFetching

\* onEndReached of the FlatList: loadMore.  setPage(prev => prev + 1) adds
\* to the page state as it is, updates of earlier events included.
loadMore ==
    /\ listScreen.events < MaxEvents
    /\ listScreen.kind # "none"
    /\ FlatListRendered
    /\ canLoadMore(listScreen)
    /\ listScreen.page < MaxListPage
    /\ LET scr == [listScreen EXCEPT !.events = @ + 1, !.page = @ + 1,
                                     !.isLoadingMore = (listScreen.kind = "home")]
       IN  listScreen' = IF listScreen.page # listScreen.rendered.page
                         THEN [scr EXCEPT !.undisturbed = FALSE, !.loads = <<>>]
                         ELSE scr
    /\ UNCHANGED listCache
    /\ UNCHANGED exceptListScreen

\* Pull to refresh on the home, actors and directors screens: back to page
\* 1 and refetch() of the query the observer is on.  It is the onRefresh of
\* the RefreshControl of the FlatList; the header button of the home
\* screen, which calls it too, is disabled while isLoading or isFetching,
\* so enabled only when the FlatList is rendered.
handleRefresh ==
    /\ listScreen.events < MaxEvents
    /\ listScreen.kind \in {"home", "actors", "directors"}
    /\ FlatListRendered
    /\ listCache' = [listCache EXCEPT ![ObservedKey(listScreen)] = startFetch(@)]
    /\ listScreen' = [listScreen EXCEPT !.events = @ + 1, !.page = 1,
                                        !.allMovies = <<>>,
                                        !.undisturbed = FALSE, !.loads = <<>>]
    /\ UNCHANGED exceptListScreen

\* Whether a button that calls refetch() is rendered: Retry in the error
\* box of the home screen and Refresh in its empty list (of page 1, when
\* nothing is fetched); Try Again in the error box of the actors and
\* directors screens and Refresh in their empty list.
canRefetch ==
    CASE listScreen.kind = "home" ->
            \/ isError
            \/ /\ FlatListRendered
               /\ listScreen.rendered.empty
               /\ ~isFetching
               /\ listScreen.rendered.page = 1
      [] OTHER ->
            ~isLoading /\ (isError \/ data = NoResponse \/ data.items = <<>>)

\* onPress={() => refetch()}: the observed query is fetched again and the
\* page stays.
ListRefetch ==
    /\ listScreen.events < MaxEvents
    /\ listScreen.kind # "none"
    /\ canRefetch
    /\ listCache' = [listCache EXCEPT ![ObservedKey(listScreen)] = startFetch(@)]
    /\ listScreen' = [listScreen EXCEPT !.events = @ + 1, !.undisturbed = FALSE, !.loads = <<>>]
    /\ UNCHANGED exceptListScreen

\* A mutation's onSuccess or the NetInfo listener invalidates the queries
\* of the list: those that hold data are marked, and the observed one is
\* fetched again.
ListInvalidated ==
    /\ listScreen.events < MaxEvents
    /\ listScreen.kind # "none"
    /\ LET k == ObservedKey(listScreen)
           marked == [j \in DOMAIN listCache |->
                        IF listCache[j].data # NoResponse
                        THEN [listCache[j] EXCEPT !.isInvalidated = TRUE]
                        ELSE listCache[j]]
       IN  /\ listCache' = [marked EXCEPT ![k] = startFetch(@)]
           /\ listScreen' =
                 IF listCache[k].data # NoResponse \/ ~listCache[k].isFetching
                 THEN [listScreen EXCEPT !.events = @ + 1, !.undisturbed = FALSE, !.loads = <<>>]
                 ELSE [listScreen EXCEPT !.events = @ + 1]
    /\ UNCHANGED exceptListScreen

\* gcTime has passed for a query the screen does not observe: it leaves
\* the cache.
ListGarbageCollect(k) ==
    /\ listScreen.kind # "none"
    /\ k # ObservedKey(listScreen)
    /\ listCache[k] # NoListQuery
    /\ ~listCache[k].isFetching
    /\ listCache' = [listCache EXCEPT ![k] = NoListQuery]
    /\ UNCHANGED listScreen
    /\ UNCHANGED exceptListScreen

ListNext ==
    \/ \E k \in ListKeys : \E r \in ServerResponses(k) : ListFetched(k, r)
    \/ \E k \in ListKeys : ListFetchFailed(k)
    \/ Render
    \/ loadMore
    \/ handleRefresh
    \/ ListRefetch
    \/ ListInvalidated
    \/ \E k \in ListKeys : ListGarbageCollect(k)

ListSpec == ListInit /\ [][ListNext]_allvars

\* ====================================================================
\* The service methods: one call is followed, from its arguments and the
\* server's answer to what it sends and returns
\* ====================================================================
ServiceInit ==
    SessionAtRest /\ QueryClientInit /\ ListScreensUnmounted /\ ServicesIdle /\ SearchScreenInit

\* getMovies, getActors, getDirectors, getGenres: the request is answered
\* 200 with a paginated payload and the method returns response.data.
getListReturns(R, payload) ==
    /\ ServicesIdle
    /\ serviceRead(Site("useList", R, "list"), "valid") = "ok"
    /\ service' = [NoServiceCall EXCEPT !.method = "getList", !.resource = R,
                                        !.payload = payload, !.returned = payload]
    /\ UNCHANGED exceptServices

\* searchMovies(params) sends its request.
searchMoviesSends(params) ==
    /\ ServicesIdle
    /\ service' = [NoServiceCall EXCEPT !.method = "searchMovies", !.params = params,
                                        !.url = searchMovies(params)]
    /\ UNCHANGED exceptServices

ServiceNext ==
    \/ \E R \in Resources, payload \in PagePayloads : getListReturns(R, payload)
    \/ \E params \in SearchParamsGiven : searchMoviesSends(params)

ServiceSpec == ServiceInit /\ [][ServiceNext]_allvars

\* ====================================================================
\* The search screen (app/search.tsx)
\* ====================================================================
\* `enabled` of searchMoviesQuery.
searchEnabled(scr) ==
    scr.hasSearched /\ (\/ scr.searchParams.searchTerm # ""
                        \/ Len(scr.selectedGenres) > 0
                        \/ scr.selectedYear # Omitted
                        \/ scr.applyClicked)

SearchFind(key) == {q \in searchCache : q.key = key}

\* searchMoviesQuery.data: the page the observed query holds, also while
\* it is fetched again.
searchData(scr) ==
    IF SearchFind(scr.searchParams) = {} THEN NoResponse
    ELSE (CHOOSE q \in SearchFind(scr.searchParams) : TRUE).data

\* The pages the server holds of the result of a search: SearchPages pages
\* of movies when the search has no filter, none or one page when it has a
\* genre or a year.
SearchTotalPages(key) ==
    IF key.genreIds # NoGenreIds \/ key.releaseYear # Omitted THEN 0..1
    ELSE {SearchPages}

\* The pages the server answers a search with: the page asked for; a page
\* of the result has an item, a page past its last page has none.
SearchResponses(key) ==
    {Response(key.pageNumber,
              IF key.pageNumber <= totalPages THEN <<10 * key.pageNumber + 1>> ELSE <<>>,
              totalPages) : totalPages \in SearchTotalPages(key)}

\* The screen renders with the state `next` a handler has set: useQuery
\* fetches the observed query when it is enabled, the key has changed or
\* the query was disabled before, no fetch of it is in flight, and it has no
\* data or its data is stale (older than staleTime, or invalidated).  A
\* query that is fetched again keeps its data meanwhile.
SearchRendered(handler, next) ==
    LET key == next.searchParams
        hit == SearchFind(key)
        optional == key # searchScreen.searchParams \/ ~searchEnabled(searchScreen)
    IN  \E stale \in BOOLEAN :
        IF /\ searchEnabled(next)
           /\ optional
           /\ \A q \in hit :
                 ~q.isFetching /\ (q.data = NoResponse \/ stale \/ q.isInvalidated)
        THEN /\ hit # {} \/ Cardinality(searchCache) < MaxSearchQueries
             /\ searchCache' = (searchCache \ hit)
                                  \cup {SearchQuery(key, searchData(next), TRUE,
                                                    \E q \in hit : q.isInvalidated)}
             /\ searchScreen' = [next EXCEPT !.requestedBy = handler]
        ELSE /\ searchCache' = searchCache
             /\ searchScreen' = [next EXCEPT !.requestedBy = "none"]

\* onChangeText of the search box.
setSearchQuery(text) ==
    /\ SearchRendered("setSearchQuery", [searchScreen EXCEPT !.searchQuery = text])
    /\ UNCHANGED exceptSearchScreen

\* handleSearch, the onSubmitEditing of the search box.
onSubmitEditing ==
    /\ SearchRendered("handleSearch",
          [searchScreen EXCEPT !.searchParams.searchTerm = searchScreen.searchQuery,
                               !.searchParams.pageNumber = 1,
                               !.hasSearched = TRUE])
    /\ UNCHANGED exceptSearchScreen

\* The Apply button.
applyFilters ==
    /\ SearchRendered("applyFilters",
          [searchScreen EXCEPT
              !.searchParams.genreIds = IF Len(searchScreen.selectedGenres) > 0
                                        THEN searchScreen.selectedGenres ELSE NoGenreIds,
              !.searchParams.releaseYear = searchScreen.selectedYear,
              !.searchParams.pageNumber = 1,
              !.applyClicked = TRUE,
              !.hasSearched = TRUE])
    /\ UNCHANGED exceptSearchScreen

\* The timeout applyFilters sets fires: setApplyClicked(false).
applyClickedTimeout ==
    /\ searchScreen.applyClicked
    /\ SearchRendered("applyClickedTimeout", [searchScreen EXCEPT !.applyClicked = FALSE])
    /\ UNCHANGED exceptSearchScreen

\* The Reset button.
resetFilters ==
    /\ SearchRendered("resetFilters",
          [searchScreen EXCEPT !.selectedGenres = <<>>,
                               !.selectedYear = Omitted,
                               !.searchParams.genreIds = NoGenreIds,
                               !.searchParams.releaseYear = Omitted,
                               !.searchParams.pageNumber = 1,
                               !.hasSearched = TRUE])
    /\ UNCHANGED exceptSearchScreen

\* prev.includes(genreId) ? prev.filter(id => id !== genreId) : [...prev, genreId]
toggled(prev, genreId) ==
    IF \E i \in 1..Len(prev) : prev[i] = genreId
    THEN SelectSeq(prev, LAMBDA id : id # genreId)
    ELSE Append(prev, genreId)

toggleGenre(genreId) ==
    /\ SearchRendered("toggleGenre",
          [searchScreen EXCEPT !.selectedGenres = toggled(@, genreId)])
    /\ UNCHANGED exceptSearchScreen

handleYearSelect(year) ==
    /\ SearchRendered("handleYearSelect", [searchScreen EXCEPT !.selectedYear = year])
    /\ UNCHANGED exceptSearchScreen

\* onEndReached of the list of results, which is rendered when the
\* observed query has data.
searchLoadMore ==
    /\ searchData(searchScreen) # NoResponse
    /\ LET d == searchData(searchScreen) IN
       IF d # NoResponse /\ d.pageNumber < d.totalPages
       THEN SearchRendered("loadMore", [searchScreen EXCEPT !.searchParams.pageNumber = @ + 1])
       ELSE SearchRendered("loadMore", searchScreen)
    /\ UNCHANGED exceptSearchScreen

\* The request of a query is answered: its data is cached.
searchFetched ==
    /\ \E q \in searchCache :
        /\ q.isFetching
        /\ \E r \in SearchResponses(q.key) :
            searchCache' = (searchCache \ {q}) \cup {SearchQuery(q.key, r, FALSE, FALSE)}
    /\ searchScreen' = [searchScreen EXCEPT !.requestedBy = "none"]
    /\ UNCHANGED exceptSearchScreen

\* The request of a query has failed for good: the query keeps the data
\* it held, invalidated or not.
searchFetchFailed ==
    /\ \E q \in searchCache :
        /\ q.isFetching
        /\ searchCache' = (searchCache \ {q})
                              \cup {SearchQuery(q.key, q.data, FALSE, q.isInvalidated)}
    /\ searchScreen' = [searchScreen EXCEPT !.requestedBy = "none"]
    /\ UNCHANGED exceptSearchScreen

\* gcTime has passed for a query the screen does not observe.
searchGarbageCollect ==
    /\ \E q \in searchCache :
        /\ ~q.isFetching
        /\ q.key # searchScreen.searchParams
        /\ searchCache' = searchCache \ {q}
    /\ searchScreen' = [searchScreen EXCEPT !.requestedBy = "none"]
    /\ UNCHANGED exceptSearchScreen

\* The NetInfo listener calls queryClient.invalidateQueries(): the
\* queries that hold data are marked and the observed query, if it is
\* enabled, is fetched again, without any handler of the screen running.  A
\* request goes out unless the query is waiting for its first data.
searchInvalidated ==
    /\ LET observed == SearchFind(searchScreen.searchParams)
           active == searchEnabled(searchScreen)
       IN  /\ searchCache' =
                 {SearchQuery(q.key, q.data, q.isFetching \/ (active /\ q \in observed),
                              q.isInvalidated \/ q.data # NoResponse) : q \in searchCache}
           /\ searchScreen' =
                 [searchScreen EXCEPT !.requestedBy =
                     IF active /\ \E q \in observed : ~q.isFetching \/ q.data # NoResponse
                     THEN "invalidateQueries" ELSE "none"]
    /\ UNCHANGED exceptSearchScreen

SearchNext ==
    \/ \E text \in SearchTexts : setSearchQuery(text)
    \/ onSubmitEditing
    \/ applyFilters
    \/ applyClickedTimeout
    \/ resetFilters
    \/ \E genreId \in FilterGenres : toggleGenre(genreId)
    \/ \E year \in FilterYears \cup {Omitted} : handleYearSelect(year)
    \/ searchLoadMore
    \/ searchFetched
    \/ searchFetchFailed
    \/ searchGarbageCollect
    \/ searchInvalidated

SearchInit ==
    SessionAtRest /\ QueryClientInit /\ ListScreensUnmounted /\ ServicesIdle /\ SearchScreenInit

SearchSpec == SearchInit /\ [][SearchNext]_allvars



\* ====================================================================
\* Properties
\* ====================================================================
CallKinds == {"login", "register", "request"}
AuthKinds == {"login", "register"}
InFlight(c) == calls[c].pc \notin {"idle", "done"}

Unauthenticated(err) ==
    [user |-> NullUser, isAuthenticated |-> FALSE, isLoading |-> FALSE, error |-> err]
Authenticated(u) ==
    [user |-> u, isAuthenticated |-> TRUE, isLoading |-> FALSE, error |-> Null]

\* C1: in every reachable state of the auth session, isAuthenticated is true
\* if and only if user is non-null.
C1_AuthenticatedIffUser ==
    state.isAuthenticated <=> (state.user # NullUser)

\* A login has just succeeded: authenticated, with a user.
C1_Witness ==
    /\ settled.kind = "login"
    /\ settled.result = "true"
    /\ state.isAuthenticated
    /\ state.user = User("alice", "user")

\* C2: when a request receives a 401 response while the session is
\* authenticated, the session eventually becomes unauthenticated
\* (isAuthenticated = false, user = null).
C2_UnauthorizedLeadsToUnauthenticated ==
    \A c \in CallIds :
        (calls[c].pc = "interceptorLogout" /\ state.isAuthenticated)
            ~> (~state.isAuthenticated /\ state.user = NullUser)

\* C3: when the HTTP client receives a 401 response, the stored token is
\* removed before the caller's promise rejects, the caller receives the
\* "Session expired" error, and the credential store reads absent after the
\* rejection (no other flow having written the stores since the removal).
C3_UnauthorizedClearsToken ==
    /\ \A c \in CallIds :
          calls[c].pc = "interceptorLogout" /\ calls[c].clean => tokenStore = NoToken
    /\ settled.kind \in CallKinds /\ settled.call.resp.status = 401 =>
          /\ settled.reqErr.message = "Session expired. Please login again."
          /\ settled.call.clean => tokenStore = NoToken

C4_HeaderOf(call) ==
    call.sent =>
        /\ call.token # NoToken => call.header = "Bearer " \o call.token
        /\ call.token = NoToken => call.header = Undefined

\* C4: every request dispatched carries "Authorization: Bearer t" where t is
\* the token the credential store held when the request interceptor read it,
\* and no Authorization header when the store held no token.
C4_BearerHeader ==
    /\ \A c \in CallIds : C4_HeaderOf(calls[c])
    /\ C4_HeaderOf(settled.call)

\* A request is out with the token a login stored meanwhile.
C4_Witness ==
    \E c \in CallIds :
        /\ calls[c].pc = "http"
        /\ calls[c].token = "t2"
        /\ calls[c].header = "Bearer t2"

\* C5: a login or register call whose response is a success carrying token t
\* and username u (role r optional): when it resolves the credential store
\* holds t, the stored profile is {username: u, role: r or 'user'}, and the
\* session is authenticated with that user, not loading, without error.
C5_LoginSuccess ==
    LET r == settled.call.resp
        u == User(r.username, IF r.role = Undefined THEN "user" ELSE r.role)
    IN  /\ settled.kind \in AuthKinds
        /\ settled.result = "true"
        /\ r.token # Undefined
        /\ r.username # Undefined
        =>  /\ state = Authenticated(u)
            /\ tokenStore = r.token
            /\ userDataStore = <<"{username:", u.username, ",role:", u.role, "}">>

\* The session half holds for every call that resolves, and the stores hold
\* what the call wrote when no other flow has written them since the call's
\* first write (history flag clean).
LoginSuccessAlone ==
    LET r == settled.call.resp
        u == User(r.username, IF r.role = Undefined THEN "user" ELSE r.role)
    IN  /\ settled.kind \in AuthKinds
        /\ settled.result = "true"
        /\ r.token # Undefined
        /\ r.username # Undefined
        =>  /\ state = Authenticated(u)
            /\ settled.call.clean =>
                   /\ tokenStore = r.token
                   /\ userDataStore = <<"{username:", u.username, ",role:", u.role, "}">>

\* C6: a login or register call that fails with an HTTP error status,
\* whatever the status: the session is unauthenticated, without user, not
\* loading, the error is the message of the server's error payload, and the
\* call rejects.
C6_FailureShowsServerMessage ==
    /\ settled.kind \in AuthKinds
    /\ settled.call.resp.status \in ErrorStatuses
    /\ settled.call.resp.message # Undefined
    =>  /\ state = Unauthenticated(settled.call.resp.message)
        /\ settled.result # "true"

C7_LogoutPost ==
    settled.kind = "logoutUser" /\ settled.result = Null =>
        /\ state = Unauthenticated(Null)
        /\ tokenStore = NoToken
        /\ userDataStore = NoData

C7_LogoutSendsNothing ==
    (\E pc \in {"logout", "removeUser"} : LogoutsAt(lo', pc) # LogoutsAt(lo, pc)) =>
        \A c \in CallIds : calls'[c].sent = calls[c].sent

\* C7: when logoutUser completes the credential store holds no token, the
\* stored profile is removed and the session is unauthenticated, without
\* user, not loading, without error; no step of logoutUser dispatches an
\* HTTP request.
C7_Logout == []C7_LogoutPost /\ [][C7_LogoutSendsNothing]_vars

\* The session half holds for every logoutUser that completes, and both stores
\* are empty when no other flow has written them during the logout (history
\* flag clean).
LogoutAlone ==
    settled.kind = "logoutUser" /\ settled.result = Null =>
        /\ state = Unauthenticated(Null)
        /\ settled.lo.clean => tokenStore = NoToken /\ userDataStore = NoData

C8_HydrationPost ==
    settled.kind = "hydration" =>
        LET h == settled.hyd IN
        /\ ~state.isLoading
        /\ IF \/ h.failedAt \in {"getToken", "getUser"}
              \/ h.failedAt = "none" /\ h.token = NoToken
           THEN /\ ~state.isAuthenticated
                /\ state.user = NullUser
                /\ state.error # Null
           ELSE /\ state.isAuthenticated
                /\ IF h.userDataString # NoData
                   THEN h.userDataString =
                           <<"{username:", state.user.username, ",role:", state.user.role, "}">>
                   ELSE state.user = User("user", "user")

\* C8: the session starts loading and unauthenticated; when startup
\* hydration completes, the session is authenticated with the stored profile
\* (or the placeholder {username: 'user', role: 'user'} when there is none)
\* if a token was stored and the reads succeeded, else unauthenticated with
\* a non-null error; isLoading is false in every case.
C8_Hydration ==
    /\ state.isLoading /\ ~state.isAuthenticated /\ state.user = NullUser
    /\ []C8_HydrationPost

\* C9: isLoading = true implies that startup hydration has not completed or
\* a login/register call is in flight.
C9_LoadingOnlyInFlight ==
    state.isLoading =>
        \/ hyd.pc # "done"
        \/ \E c \in CallIds : calls[c].kind \in AuthKinds /\ InFlight(c)

\* C10: when the device is reported offline to the request interceptor, the
\* request rejects with the "No internet connection" error and is not
\* dispatched to the server.
C10_OfflineRejects ==
    /\ \A c \in CallIds : ~calls[c].connected => ~calls[c].sent /\ ~InFlight(c)
    /\ settled.kind \in CallKinds /\ ~settled.call.connected =>
          /\ settled.reqErr.message = "No internet connection"
          /\ ~settled.call.sent

\* A request made while offline has been rejected.
C10_Witness ==
    /\ settled.kind = "request"
    /\ ~settled.call.connected
    /\ settled.result = "No internet connection"
    /\ ~settled.call.sent

C11_OriginalError ==
    /\ settled.kind \in CallKinds
    /\ settled.call.sent
    /\ settled.call.resp.status \notin {200, 401}
    =>  /\ settled.reqErr.message = "AxiosError"
        /\ settled.reqErr.responseMessage = settled.call.resp.message

C11_TokenUntouched ==
    /\ settled'.kind \in CallKinds
    /\ settled'.call.sent
    /\ settled'.call.resp.status \notin {200, 401}
    => tokenStore' = tokenStore

\* C11: a request that fails otherwise than by a 401 response (another error
\* status, a timeout, a network error) rejects with the original error, and
\* the step of the response interceptor that handles it leaves the stored
\* token as it was.
C11_PassThrough == []C11_OriginalError /\ [][C11_TokenUntouched]_vars

\* A request that carried the stored token was answered 500: it rejected
\* with the error of the response and the token is still stored.
C11_Witness ==
    /\ settled.kind = "request"
    /\ settled.call.resp.status = 500
    /\ settled.call.resp.message = ServerMessage
    /\ settled.reqErr = AxiosError(settled.call.resp)
    /\ settled.call.header = "Bearer t1"
    /\ tokenStore = "t1"

\* C12: after a successful create, update or delete of a resource R through
\* any mutation of the app, every cached list query of R is invalidated.
C12_MutationInvalidatesLists ==
    did.type = "mutated" =>
        \A q \in queryCache :
            /\ q.request # NoRequest
            /\ q.site.kind = "list"
            /\ q.site.resource = did.m.resource
            => q.isInvalidated

C13_FailureKeepsCache ==
    did'.kind = "mutation" /\ did'.type \in {"retry", "mutationFailed"} =>
        queryCache' = queryCache

C13_InvalidationAfterSuccess ==
    (\E q \in queryCache' :
        /\ q.isInvalidated
        /\ \A p \in queryCache : p.key = q.key => ~p.isInvalidated) =>
        \/ did'.type = "netinfo"
        \/ /\ did'.type = "mutated"
           /\ \E x \in mutations :
                 /\ ~x.sleeping
                 /\ x.attempts >= 1
                 /\ x \notin mutations'
                 /\ did'.m = x.m

\* C13: a mutation invalidates cache entries only in the step in which the
\* server's success response to its request arrives; a step in which the
\* mutation fails (the failure that is retried, and the final one) leaves
\* the cache as it was.
C13_InvalidateOnlyOnSuccess ==
    [][C13_FailureKeepsCache /\ C13_InvalidationAfterSuccess]_allvars

\* A mutation has failed for good, after its retry, with queries cached.
C13_Witness ==
    /\ did.type = "mutationFailed"
    /\ did.attempts = 2
    /\ did.m.name = "ListScreen"
    /\ \E q \in queryCache :
          q.request # NoRequest /\ q.site.resource = did.m.resource /\ ~q.isInvalidated

\* C14: an invalidation a mutation issues for the lists of a resource matches
\* no detail cache key of that resource.
C14_ListInvalidationSparesDetails ==
    did.type = "mutated" =>
        \A i \in onSuccess(did.m) : i.target = "lists" =>
            \A q \in queryCache :
                /\ q.request # NoRequest
                /\ q.site.kind = "detail"
                /\ q.site.resource = did.m.resource
                => ~partialMatchKey(q.key, i.key)

\* C15: two reads that send different requests use different cache keys: a
\* read served from the cache gets the data of the request it would send.
C15_ServedOwnRequest ==
    did.type = "served" => did.served = did.request

\* C19: a failed read is sent at most 4 times and a failed mutation at most
\* 2 times; the delay before read retry n is 1000 * 2^n ms, at most 30 s.
C19_RetryPolicy ==
    /\ \A f \in fetch : f.attempts <= 4
    /\ \A x \in mutations : x.attempts <= 2
    /\ did.type = "readFailed" => did.attempts = 4
    /\ did.type = "mutationFailed" => did.attempts = 2
    /\ did.type = "retry" /\ did.kind = "query" =>
          /\ did.n \in 0..2
          /\ did.n = 0 => did.delay = 1000
          /\ did.n = 1 => did.delay = 2000
          /\ did.n = 2 => did.delay = 4000
          /\ did.delay <= 30000

\* A read has failed for good after its fourth request.
C19_Witness ==
    /\ did.type = "readFailed"
    /\ did.attempts = 4
    /\ fetch = {}

\* C18: a read whose response does not match the declared schema rejects
\* with a validation error, distinguishable from a transport error, and the
\* response is not stored in the cache.
C18_MalformedRejected ==
    did.payload = "malformed" =>
        /\ did.type \in {"retry", "retryCancelled", "readFailed"}
        /\ did.error = "ZodError"
        /\ did.type # "fetched"

\* The items of a sequence of responses, in order.
RECURSIVE C17_Flatten(_)
C17_Flatten(rs) == IF rs = <<>> THEN <<>> ELSE Head(rs).items \o C17_Flatten(Tail(rs))

\* C16: on the home screen, fetching page 1 and then page 2 yields an
\* accumulated list whose length is the sum of the two pages' item counts,
\* the items of page 1 before those of page 2, in response order.
C16_HomeAccumulates ==
    /\ listScreen.kind = "home"
    /\ listScreen.undisturbed
    /\ Len(listScreen.loads) = 2
    =>  LET first == listScreen.loads[1]
            second == listScreen.loads[2]
        IN  /\ first.pageNumber = 1
            /\ second.pageNumber = 2
            /\ Len(listScreen.allMovies) = Len(first.items) + Len(second.items)
            /\ \A i \in 1..Len(first.items) : listScreen.allMovies[i] = first.items[i]
            /\ \A i \in 1..Len(second.items) :
                  listScreen.allMovies[Len(first.items) + i] = second.items[i]

\* The home screen has loaded a full page 1 and a page 2 of one item.
C16_Witness ==
    /\ listScreen.kind = "home"
    /\ listScreen.undisturbed
    /\ Len(listScreen.loads) = 2
    /\ listScreen.page = 2
    /\ ~isFetching
    /\ listScreen.allMovies = <<11, 12, 21>>

\* C17: on every infinite-scroll screen, once page n+1 is loaded the list
\* shown holds the items of pages 1..n followed by those of page n+1: it
\* holds every page loaded since the screen mounted or a base parameter
\* changed.
C17_ScrollKeepsPages ==
    /\ listScreen.kind \in ListScreenKinds
    /\ listScreen.undisturbed
    /\ listScreen.loads # <<>>
    /\ data # NoResponse
    /\ ~isFetching
    =>  /\ \A i \in 1..Len(listScreen.loads) : listScreen.loads[i].pageNumber = i
        /\ Displayed = C17_Flatten(listScreen.loads)

\* C24: when login/register calls overlap, once they have all completed
\* the stored token, the stored profile and the in-memory user come from the
\* same server response: that of the call that completed last, whose
\* dispatch is the last one.
C24_OverlappingCallsAgree ==
    /\ settled.kind \in AuthKinds
    /\ settled.result = "true"
    /\ settled.call.by = "auth"
    /\ \A c \in CallIds : ~InFlight(c)
    =>  /\ tokenStore = settled.call.resp.token
        /\ userDataStore = JSONstringify(settled.call.user)
        /\ state.user = settled.call.user

\* A step that removes the stored token is the start of logoutUser, the
\* logout of checkAuthStatus' catch block, or the 401 response to a request
\* that carried that token.
C25_TokenKept ==
    tokenStore # NoToken /\ tokenStore' = NoToken =>
        \/ LogoutsAt(lo', "logout") > LogoutsAt(lo, "logout")
        \/ hyd'.pc = "catchLogout"
        \/ \E c \in CallIds :
            /\ calls[c].pc = "http"
            /\ calls'[c].pc = "interceptorLogout"
            /\ calls[c].token = tokenStore

\* C25: a token a login has stored stays in the credential store until a
\* logout or a 401 response to a request that carried it; a 401 response to
\* a request issued before the login does not remove it.
C25_OldUnauthorizedKeepsToken == [][C25_TokenKept]_vars

\* When logoutUser has just completed (resolved) the credential store is
\* empty and the session unauthenticated, and the next step neither stores a
\* token nor authenticates the session (checkAuthStatus apart): a call made
\* after the logout cannot have got that far.
C26_AfterLogout ==
    settled.kind = "logoutUser" /\ settled.result = Null =>
        /\ tokenStore = NoToken
        /\ ~state.isAuthenticated
        /\ tokenStore' = NoToken
        /\ (state'.isAuthenticated => hyd' # hyd)

\* C26: after logoutUser has completed, the session stays unauthenticated
\* and the credential store empty until a login or register call is started
\* after that logout; a call in flight when logout ran neither
\* re-authenticates the session nor stores a token.
C26_LogoutIsFinal == [][C26_AfterLogout]_vars

\* C27: whenever hydration is complete and no login, register, logout or
\* HTTP request is in flight, the session is authenticated if and only if
\* the credential store holds a token.
C27_AuthenticatedIffToken ==
    /\ hyd.pc = "done"
    /\ LogoutsUnderWay(lo) = 0
    /\ \A c \in CallIds : ~InFlight(c)
    =>  (state.isAuthenticated <=> tokenStore # NoToken)

\* ceil(a / b) on the naturals.
C21_Ceil(a, b) == (a + b - 1) \div b

\* C21: every paginated list response a resource service returns to its
\* caller satisfies hasNext = (pageNumber < totalPages) and
\* totalPages = ceil(totalCount / pageSize).
C21_PageInvariants ==
    service.method = "getList" =>
        /\ service.returned.hasNext = (service.returned.pageNumber < service.returned.totalPages)
        /\ service.returned.totalPages =
              C21_Ceil(service.returned.totalCount, service.returned.pageSize)

\* The 'GenreIds' parameters of a query string, in order.
C22_GenreIdValues(url) ==
    LET gs == SelectSeq(url, LAMBDA x : x[1] = "GenreIds")
    IN  [i \in 1..Len(gs) |-> gs[i][2]]

\* C22: for every list of genre ids passed to searchMovies, the request URL
\* holds exactly one 'GenreIds' parameter per id, in list order, each
\* holding a single id; an empty or missing list gives no such parameter.
C22_GenreIdsRepeated ==
    service.method = "searchMovies" =>
        LET ids == service.params.genreIds
            values == C22_GenreIdValues(service.url)
        IN  IF ids = NoGenreIds \/ ids = <<>> THEN values = <<>>
            ELSE /\ Len(values) = Len(ids)
                 /\ \A i \in 1..Len(ids) : values[i] = ToString(ids[i])

\* searchMovies was called with the genre ids 2, 1 and sent two parameters.
C22_Witness ==
    /\ service.method = "searchMovies"
    /\ service.params.genreIds = <<2, 1>>
    /\ C22_GenreIdValues(service.url) = <<"2", "1">>

\* C23: on the search screen, toggling a genre or selecting a year changes
\* the local selection only and never makes a search request go out; a
\* request goes out only once the user has submitted the search box or
\* pressed Apply or Reset.
C23_SelectionSendsNothing ==
    /\ searchScreen.requestedBy \notin {"toggleGenre", "handleYearSelect"}
    /\ searchScreen.requestedBy # "none" => searchScreen.hasSearched

\* C28: on the home screen, after any sequence of load-more, refresh and
\* invalidation (by a mutation or by a reconnect), the accumulated list
\* holds the items of each fetched page at most once.
C28_NoPageTwice ==
    listScreen.kind = "home" =>
        \A i, j \in 1..Len(listScreen.allMovies) :
            i # j => listScreen.allMovies[i] # listScreen.allMovies[j]

\* A step of the home screen that changes the page goes back to page 1
\* (refresh) or advances by one from the page fetched last, that page
\* being loaded, reporting hasNext and not being fetched.
C29_Advance ==
    listScreen.kind = "home" /\ listScreen'.page # listScreen.page =>
        \/ listScreen'.page = 1
        \/ /\ listScreen'.page = listScreen.page + 1
           /\ data.pageNumber = listScreen.page
           /\ data.hasNext
           /\ ~isFetching

\* C29: on the home screen, however often and whenever the end-of-list
\* event fires, the page advances by exactly 1, at most once per completed
\* page fetch and only when the last fetched page reports hasNext = true
\* (so that no page is skipped and no page beyond the last is requested).
C29_PageAdvancesByOne == [][C29_Advance]_allvars

\* C30: one submission of a create form (movie, actor, director, genre)
\* creates at most one entity on the server, also when the first request is
\* carried out by the server but its response is lost or times out and the
\* retry policy of the mutations sends it again.
C30_CreatesAtMostOne ==
    did.type \in {"mutated", "mutationFailed"} /\ did.m.op = "create" =>
        did.applied <= 1

====
